---------------------------- MODULE Spec2Model ----------------------------
(***************************************************************************)
(* NutriGuide-Plus: the /analyze and /verify request handlers, the hybrid  *)
(* recognizer's label normalisation and weighted vote, the nutrition       *)
(* resolver and the verifier.                                              *)
(*                                                                         *)
(* Food names are TLA+ strings; Len, \o and SubSeq act on them character   *)
(* by character.  Confidences are integers in hundredths (0.60 is 60);     *)
(* a quotient is kept as numerator and denominator and compared by cross   *)
(* multiplication, so no comparison is rounded.                            *)
(*                                                                         *)
(* Python evaluates an argument once, before the call.  An operator whose  *)
(* arguments are computed values is declared RECURSIVE, which makes TLC    *)
(* evaluate its arguments before the body in the same way.                 *)
(***************************************************************************)
EXTENDS Integers, Sequences, FiniteSets, TLC

VARIABLES
    food_name,      \* _normalize_food_name: the argument
    normalized,     \* _normalize_food_name: results of successive applications
    results,        \* _combine_results: method name -> detection or None
    raised,         \* the same map with one method's confidence increased
    combined,       \* _combine_results(results), None before the call
    combined_raised, \* _combine_results(raised), None before the call
    rf_pc,          \* recognize_food: the block about to run
    google_configured, \* a Google Vision key or credentials are in the environment
    detected,       \* recognize_food: what each adapter call returned
    calls,          \* recognize_food: how each adapter call went
    classify_args,  \* classify_topk: the environment, the adapters' outcomes and k
    classified,     \* classify_topk: how the call ended
    rule_image,     \* rule-based classifiers: the image handed in
    hf_result,      \* rule-based classifiers: what Hugging Face answers, None if unavailable
    free_result,    \* what get_free_food_recognition(image_b64, img) returned
    feature_result, \* what get_robust_food_detection(image_b64) returned
    hist_image,     \* colour histogram analyzer: the image handed in
    hist_runs,      \* what analyze_food_with_color_histograms returned, run after run
    smart_analysis, \* threshold rules: the feature vector handed in
    smart_runs,     \* threshold rules: feature vector and answer, call after call
    ext_pc,         \* classify_topk: the call that sends the next request
    ext_key,        \* GOOGLE_VISION_API_KEY is set
    ext_model,      \* _try_huggingface_api: index of the model tried next
    http_log,       \* the requests sent to external services so far
    gen_args,       \* generate_profile_and_recipes: food, notes, remote answer
    gen_out,        \* generate_profile_and_recipes: the recommendations returned so far
    fooddata_central, \* what get_nutrition_from_fooddata_central answers for each name
    resolved,       \* calculate_dynamic_nutrition: the calls made so far and their results
    NUTRITION_DB,   \* generator.NUTRITION_DB
    nutr_args,      \* calculate_dynamic_nutrition: food, serving, remote answer
    nutr_out,       \* calculate_dynamic_nutrition: the dicts returned so far
    pc,             \* analyze: the statement block about to run
    scan,           \* analyze: the FoodScan posted (image and notes)
    img,            \* analyze: the image opened by the validation block
    topk,           \* analyze: the list generation works from
    primary,        \* analyze: topk[0] as classify_topk returned it
    recommendation, \* analyze: the Recommendation built
    caught,         \* analyze: the exception that reached the handler's except clauses
    executed,       \* analyze: the pipeline functions called so far
    response,       \* analyze: status code and detail of the answer
    verify_arg,     \* verify: the NutritionProfile posted
    report,         \* verify: the VerificationReport returned
    requests        \* requests served so far

-----------------------------------------------------------------------------
(* Bounds *)

MaxWords == 2       \* words per generated food name
NumLabels == 3      \* distinct labels the methods may report to the vote
MaxServing == 30    \* largest serving size in grams handed to the resolver
MaxRequests == 2    \* requests served in one run of the service
MaxK == 4           \* largest k handed to classify_topk
MaxRuns == 2        \* runs of the colour histogram analyzer on one image
MaxLookups == 3     \* calls of calculate_dynamic_nutrition on one database

-----------------------------------------------------------------------------
(* Python str operations *)

None == "<None>"

UpperChars == <<"A","B","C","D","E","F","G","H","I","J","K","L","M",
                "N","O","P","Q","R","S","T","U","V","W","X","Y","Z">>
LowerChars == <<"a","b","c","d","e","f","g","h","i","j","k","l","m",
                "n","o","p","q","r","s","t","u","v","w","x","y","z">>

\* str.lower() on one character
ToLower == [ c \in { UpperChars[i] : i \in 1..26 } |->
               LowerChars[CHOOSE i \in 1..26 : UpperChars[i] = c] ]

LowerChar(c) == IF c \in DOMAIN ToLower THEN ToLower[c] ELSE c

RECURSIVE Lower(_)
Lower(s) ==
    IF Len(s) = 0 THEN ""
    ELSE LowerChar(SubSeq(s, 1, 1)) \o Lower(SubSeq(s, 2, Len(s)))

RECURSIVE LStrip(_)
LStrip(s) ==
    IF Len(s) > 0 /\ SubSeq(s, 1, 1) = " " THEN LStrip(SubSeq(s, 2, Len(s)))
    ELSE s

RECURSIVE RStrip(_)
RStrip(s) ==
    IF Len(s) > 0 /\ SubSeq(s, Len(s), Len(s)) = " "
    THEN RStrip(SubSeq(s, 1, Len(s) - 1))
    ELSE s

Strip(s) == RStrip(LStrip(s))

\* sub in s
Contains(s, sub) ==
    \E i \in 1..(Len(s) - Len(sub) + 1) : SubSeq(s, i, i + Len(sub) - 1) = sub

\* any(word in s for word in words)
AnyIn(s, words) == \E w \in words : Contains(s, w)

\* s.endswith(suffix)
EndsWith(s, suffix) ==
    /\ Len(suffix) <= Len(s)
    /\ SubSeq(s, Len(s) - Len(suffix) + 1, Len(s)) = suffix

\* " ".join(words)
RECURSIVE Join(_)
Join(words) ==
    IF Len(words) = 0 THEN ""
    ELSE IF Len(words) = 1 THEN words[1]
    ELSE words[1] \o " " \o Join(Tail(words))

SeqsUpTo(S, n) == UNION { [1..k -> S] : k \in 0..n }

-----------------------------------------------------------------------------
(* HybridFoodRecognizer: label normalisation *)

\* the alias table, in the dict's insertion order
food_aliases == <<
    <<"hamburger", "burger">>,
    <<"cheeseburger", "burger">>,
    <<"beef burger", "burger">>,
    <<"french fries", "french fries">>,
    <<"fries", "french fries">>,
    <<"chips", "french fries">>,
    <<"spaghetti", "pasta">>,
    <<"noodles", "pasta">>,
    <<"fettuccine", "pasta">>,
    <<"linguine", "pasta">>,
    <<"beef", "steak">>,
    <<"ribeye", "steak">>,
    <<"sirloin", "steak">>,
    <<"chicken breast", "grilled chicken">>,
    <<"roasted chicken", "grilled chicken">>,
    <<"green salad", "salad">>,
    <<"caesar salad", "salad">>,
    <<"garden salad", "salad">>,
    <<"fruit salad", "fruit bowl">>,
    <<"mixed fruit", "fruit bowl">>,
    <<"white rice", "rice">>,
    <<"brown rice", "rice">>,
    <<"fried rice", "rice">> >>

suffixes == <<" dish", " plate", " bowl", " item", " food">>

\* the loop over the suffixes, from the i-th one on
RECURSIVE RemoveSuffixes(_, _)
RemoveSuffixes(s, i) ==
    IF i > Len(suffixes) THEN s
    ELSE IF EndsWith(s, suffixes[i])
         THEN RemoveSuffixes(Strip(SubSeq(s, 1, Len(s) - Len(suffixes[i]))), i + 1)
         ELSE RemoveSuffixes(s, i + 1)

_normalize_food_name(name) ==
    IF name = None \/ name = "" THEN "unidentified food"
    ELSE LET food_lower == Strip(Lower(name))
             hits == { i \in 1..Len(food_aliases) :
                          Contains(food_lower, food_aliases[i][1]) }
         IN  IF hits # {}
             THEN food_aliases[CHOOSE i \in hits : \A j \in hits : i <= j][2]
             ELSE LET stripped == RemoveSuffixes(food_lower, 1)
                  IN  IF stripped # "" THEN stripped ELSE name

-----------------------------------------------------------------------------
(* HybridFoodRecognizer: weighted vote *)

\* the voting methods, in the insertion order of method_weights
Methods == <<"google_vision", "color_histogram", "huggingface", "feature_matching">>

\* weights in hundredths
method_weights == [google_vision |-> 40, color_histogram |-> 25,
                   huggingface |-> 20, feature_matching |-> 15]

low_confidence == 60
confidence_cap == 98
\* confidence counted by the agreement bonus: strictly above this
agreement_floor == 60

\* features without a 'dominant_colors' entry
NoHue == -1

\* a method's entry when it produced no detection (Python None)
NoDetection == [food |-> None, confidence |-> 0, hue |-> NoHue]

\* the value of a result variable before the call has returned
NotCalled == [food |-> None, num |-> 0, den |-> 1]

RECURSIVE SumOver(_, _)
SumOver(S, f) ==
    IF S = {} THEN 0
    ELSE LET x == CHOOSE y \in S : TRUE IN f[x] + SumOver(S \ {x}, f)

\* indexes of the methods whose entry is a detection
Present(res) == { i \in 1..Len(Methods) : res[Methods[i]] # NoDetection }

\* a vote in which every method counts the same
VoteScoreUnweighted(res, food) ==
    SumOver({ i \in Present(res) : res[Methods[i]].food = food },
            [ i \in 1..Len(Methods) |->
                IF res[Methods[i]] = NoDetection THEN 0
                ELSE res[Methods[i]].confidence * 25 ])

\* vote_scores[food] before normalisation, in 1/10000
VoteScore(res, food) ==
    SumOver({ i \in Present(res) : res[Methods[i]].food = food },
            [ i \in 1..Len(Methods) |->
                IF res[Methods[i]] = NoDetection THEN 0
                ELSE res[Methods[i]].confidence * method_weights[Methods[i]] ])

\* total_weight, in hundredths
TotalWeight(res) ==
    SumOver(Present(res), [ i \in 1..Len(Methods) |-> method_weights[Methods[i]] ])

VotedFoods(res) == { res[Methods[i]].food : i \in Present(res) }

\* position of a food in vote_scores: the first method that voted for it
FirstVoter(res, food) ==
    CHOOSE i \in Present(res) :
        /\ res[Methods[i]].food = food
        /\ \A j \in Present(res) : res[Methods[j]].food = food => i <= j

\* max(vote_scores, key=vote_scores.get): the first key with the largest score
BestFood(res) ==
    CHOOSE f \in VotedFoods(res) :
        \A g \in VotedFoods(res) :
            \/ VoteScore(res, f) > VoteScore(res, g)
            \/ /\ VoteScore(res, f) = VoteScore(res, g)
               /\ FirstVoter(res, f) <= FirstVoter(res, g)

\* the bonus when a confidence of exactly 0.6 is counted as well
AgreementBonusInclusive(res, target_food) ==
    LET counted == { i \in Present(res) :
                        res[Methods[i]].confidence >= agreement_floor }
        agreements == Cardinality({ i \in counted :
                                      res[Methods[i]].food = target_food })
        total_methods == Cardinality(counted)
    IN  IF total_methods = 0 THEN 0
        ELSE IF 4 * agreements >= 3 * total_methods THEN 10
        ELSE IF 2 * agreements >= total_methods THEN 5
        ELSE 0

\* the bonus in hundredths
_calculate_agreement_bonus(res, target_food) ==
    LET counted == { i \in Present(res) :
                        res[Methods[i]].confidence > agreement_floor }
        agreements == Cardinality({ i \in counted :
                                      res[Methods[i]].food = target_food })
        total_methods == Cardinality(counted)
    IN  IF total_methods = 0 THEN 0
        ELSE IF 4 * agreements >= 3 * total_methods THEN 10
        ELSE IF 2 * agreements >= total_methods THEN 5
        ELSE 0

Min(a, b) == IF a <= b THEN a ELSE b

\* final_confidence without min(0.98, .)
FinalUncapped(res) ==
    LET best == BestFood(res)
        W == TotalWeight(res)
    IN  [num |-> VoteScore(res, best) + _calculate_agreement_bonus(res, best) * W,
         den |-> W]

\* final_confidence as the quotient num / den of hundredths
FinalConfidence(res) ==
    LET best == BestFood(res)
        W == TotalWeight(res)
    IN  [num |-> Min(confidence_cap * W,
                     VoteScore(res, best) + _calculate_agreement_bonus(res, best) * W),
         den |-> W]

\* all_features['dominant_colors'][0]['hsv'][0] after the update() calls:
\* the entry of the last method whose features carry dominant colours
TopHue(res) ==
    LET carriers == { i \in Present(res) : res[Methods[i]].hue # NoHue }
    IN  IF carriers = {} THEN NoHue
        ELSE res[Methods[CHOOSE i \in carriers : \A j \in carriers : j <= i]].hue

\* the vote winner kept where the generic category is asked for
KeepWinner(res) == BestFood(res)

_get_generic_category(res) ==
    LET hue == TopHue(res)
    IN  IF hue = NoHue THEN "mixed dish"
        ELSE IF 80 <= hue /\ hue <= 140 THEN "vegetable dish"
        ELSE IF (0 <= hue /\ hue <= 20) \/ (340 <= hue /\ hue <= 360) THEN "meat dish"
        ELSE IF 40 <= hue /\ hue <= 60 THEN "grain dish"
        ELSE "mixed dish"

\* the generic category's answer in place of the fixed one
NoVotesGeneric == [food |-> "mixed dish", num |-> 65, den |-> 1]

\* if not vote_scores: return 'unidentified food', 0.5
NoVotesResult == [food |-> "unidentified food", num |-> 50, den |-> 1]

_combine_results(res) ==
    IF Present(res) = {} THEN NoVotesResult
    ELSE LET final == FinalConfidence(res)
         IN  IF final.num < low_confidence * final.den
             THEN [food |-> _get_generic_category(res),
                   num |-> final.num, den |-> final.den]
             ELSE [food |-> BestFood(res), num |-> final.num, den |-> final.den]

\* a / b <= c / d for quotients with positive denominators
Leq(a, b) == a.num * b.den <= b.num * a.den

-----------------------------------------------------------------------------
(* Inputs of the vote *)

LabelList == <<"burger", "salad", "rice", "pizza">>
Labels == { LabelList[i] : i \in 1..NumLabels }

\* confidences in hundredths: none, below, at and above the thresholds
ConfLevels == {0, 50, 60, 70, 100}

\* hue of the top dominant colour in degrees; only the colour-histogram
\* analyzer's features carry dominant colours
Hues == {NoHue, 10, 50, 100}

\* the label google_vision's fallback gives an image it cannot place
FallbackLabel == "mixed dish"

Detections(m) ==
    [food : IF m = "google_vision" THEN Labels \cup {FallbackLabel} ELSE Labels,
     confidence : ConfLevels,
     hue : IF m = "color_histogram" THEN Hues ELSE {NoHue}]

ResultMaps ==
    [google_vision : Detections("google_vision") \cup {NoDetection},
     color_histogram : Detections("color_histogram") \cup {NoDetection},
     huggingface : Detections("huggingface") \cup {NoDetection},
     feature_matching : Detections("feature_matching") \cup {NoDetection}]

\* labels as the adapters return them, before normalisation
RawLabelList == <<"hamburger", "caesar salad", "Cheeseburger", "pizza">>
RawLabels == { RawLabelList[i] : i \in 1..NumLabels }

\* what an adapter call may return to recognize_food
AdapterReturns(m) ==
    [food : RawLabels, confidence : {30, 50, 90},
     hue : IF m = "color_histogram" THEN {NoHue, 100} ELSE {NoHue}]

AllAbsent == [google_vision |-> NoDetection, color_histogram |-> NoDetection,
              huggingface |-> NoDetection, feature_matching |-> NoDetection]

-----------------------------------------------------------------------------
(* The recognition adapters as recognize_food calls them *)

\* how a call went: not made, answered by the adapter's analysis, answered
\* after a failure inside the adapter (the kind of failure), or raised
NoCalls == [google_vision |-> "not_called", color_histogram |-> "not_called",
            huggingface |-> "not_called", feature_matching |-> "not_called"]

\* what the request to the Vision API can come to inside detect_food
GoogleFailures == {"no_api_key", "non_200", "no_responses", "api_error", "exception"}

\* the image as _fallback_detection sees it: decodable or not, and the
\* average colour of its 224 x 224 resize
FallbackImages ==
    [decodes : BOOLEAN,
     avg_color : {<<60, 120, 50>>, <<180, 90, 80>>, <<230, 230, 230>>, <<100, 90, 95>>}]

Return(food, confidence) == [food |-> food, confidence |-> confidence, hue |-> NoHue]

\* GoogleVisionFoodRecognizer._fallback_detection
_fallback_detection(im) ==
    IF ~im.decodes THEN Return("unidentified food", 50)
    ELSE IF im.avg_color[2] > im.avg_color[1] /\ im.avg_color[2] > im.avg_color[3]
    THEN Return("salad", 65)
    ELSE IF im.avg_color[1] > 150 THEN Return("pizza", 60)
    ELSE IF \A i \in 1..3 : im.avg_color[i] > 200 THEN Return("rice", 60)
    ELSE Return("mixed dish", 55)

\* GoogleVisionFoodRecognizer.detect_food: outcome is "ok" or the failure,
\* analysed what _analyze_google_results made of an answer
detect_food_with_google_vision(outcome, analysed, im) ==
    IF outcome \in GoogleFailures THEN _fallback_detection(im) ELSE analysed

\* ColorHistogramAnalyzer.analyze_food_image
analyze_food_with_color_histograms(outcome, analysed) ==
    IF outcome = "exception" THEN Return("unidentified food", 50) ELSE analysed

\* RobustFoodDetector.detect_food
get_robust_food_detection(outcome, analysed) ==
    IF outcome = "exception" THEN Return("mixed dish", 65) ELSE analysed

-----------------------------------------------------------------------------
(* vision.py: classify_topk *)

generate_related_foods(primary_food) ==
    LET food_lower == Lower(primary_food)
    IN  IF AnyIn(food_lower, {"pizza", "burger", "sandwich"}) THEN <<"bread", "cheese">>
        ELSE IF AnyIn(food_lower, {"chicken", "beef", "steak"}) THEN <<"rice", "vegetables">>
        ELSE IF AnyIn(food_lower, {"rice", "pasta"}) THEN <<"vegetables", "sauce">>
        ELSE IF AnyIn(food_lower, {"salad", "vegetables"}) THEN <<"dressing", "bread">>
        ELSE IF AnyIn(food_lower, {"fruit", "apple", "banana"}) THEN <<"yogurt", "nuts">>
        ELSE <<"side dish", "beverage">>

\* HybridFoodRecognizer._calculate_consensus
_calculate_consensus(res) ==
    LET valid == { i \in Present(res) : res[Methods[i]].confidence > agreement_floor }
        unique_foods == { res[Methods[i]].food : i \in valid }
    IN  IF Cardinality(valid) < 2 THEN "low"
        ELSE IF Cardinality(unique_foods) = 1 THEN "high"
        ELSE IF Cardinality(unique_foods) = 2 THEN "medium"
        ELSE "low"

\* HybridFoodRecognizer._get_all_predictions: the present methods by
\* descending confidence, equal confidences in the order of the results
RECURSIVE _get_all_predictions(_)
_get_all_predictions(res) ==
    LET before(i, j) == \/ res[Methods[i]].confidence > res[Methods[j]].confidence
                        \/ /\ res[Methods[i]].confidence = res[Methods[j]].confidence
                           /\ i < j
        rank(i) == 1 + Cardinality({ j \in Present(res) : before(j, i) })
    IN  [ p \in 1..Cardinality(Present(res)) |->
            res[Methods[CHOOSE i \in Present(res) : rank(i) = p]] ]

\* seq[:k]
Take(seq, k) == SubSeq(seq, 1, Min(k, Len(seq)))

Entry(food, num, den) == [food |-> food, num |-> num, den |-> den]

\* alternatives: other methods' predictions, filled up with related foods
Alternatives(primary_food, preds, related_foods) ==
    Take(SelectSeq(SubSeq(preds, 2, Min(3, Len(preds))),
                   LAMBDA pr : pr.food # primary_food /\ pr.confidence > 50)
         \o related_foods, 2)

\* features outside the detections that classify_topk consults
NoFeatures == [dominant_color |-> "", avg_red |-> 0]
FeatureInputs == {NoFeatures, [dominant_color |-> "brown_dominant", avg_red |-> 150]}

\* alt_foods of the low-confidence branch, chosen from the merged features
AltFoods(res, feat, hue, related_foods) ==
    IF \/ feat.dominant_color = "green_dominant"
       \/ (hue # NoHue /\ 80 <= hue /\ hue < 140)
    THEN <<"salad", "vegetables">>
    ELSE IF \/ feat.dominant_color = "brown_dominant"
            \/ (res.google_vision # NoDetection /\ feat.avg_red > 100)
    THEN <<"grilled meat", "bread">>
    ELSE IF feat.dominant_color = "white_dominant"
    THEN <<"rice", "pasta">>
    ELSE related_foods

\* the three branches on the hybrid recognizer's confidence
RECURSIVE TopkFrom(_, _, _, _, _, _)
TopkFrom(hybrid, consensus_level, related_foods, alternatives, alt_foods, k) ==
    IF hybrid.num >= 80 * hybrid.den /\ consensus_level \in {"high", "medium"}
    THEN Take(<<hybrid, Entry(related_foods[1], 15, 1),
                Entry(related_foods[2], 5, 1)>>, k)
    ELSE IF hybrid.num >= 65 * hybrid.den
    THEN Take(<<hybrid, Entry(alternatives[1], 20, 1),
                Entry(alternatives[2], 10, 1)>>, k)
    ELSE Take(<<hybrid, Entry(alt_foods[1], 15, 1), Entry(alt_foods[2], 10, 1)>>, k)

\* the list returned once the hybrid recognizer has answered hybrid with the
\* predictions preds; feat carries the features outside the detections:
\* dominant_color of the feature detector and avg_color[0] of the Google
\* Vision entry
RECURSIVE HybridAnswer(_, _, _, _, _, _)
HybridAnswer(res, feat, k, hybrid, preds, related_foods) ==
    TopkFrom(hybrid, _calculate_consensus(res), related_foods,
             Alternatives(hybrid.food, preds, related_foods),
             AltFoods(res, feat, TopHue(res), related_foods), k)

RECURSIVE HybridRelated(_, _, _, _, _)
HybridRelated(res, feat, k, hybrid, preds) ==
    HybridAnswer(res, feat, k, hybrid, preds, generate_related_foods(hybrid.food))

HybridTopk(res, feat, k) ==
    HybridRelated(res, feat, k, _combine_results(res), _get_all_predictions(res))

\* a call that raised instead of returning a detection
Raised == [food |-> "", confidence |-> -1, hue |-> NoHue]

\* how a block of classify_topk ends: with an exception leaving it, or at
\* one of its return statements (via) with the list returned
RaisedOut == [raised |-> TRUE, via |-> "", list |-> <<>>]
NotClassified == [raised |-> FALSE, via |-> "not_called", list |-> <<>>]
Returned(via, list) == [raised |-> FALSE, via |-> via, list |-> list]

\* [(primary_food, confidence), (related_foods[0], 0.15), (related_foods[1], 0.05)][:k]
RECURSIVE PrimaryAndRelated(_, _, _)
PrimaryAndRelated(detection, related_foods, k) ==
    Take(<<Entry(detection.food, detection.confidence, 1),
           Entry(related_foods[1], 15, 1), Entry(related_foods[2], 5, 1)>>, k)

\* the body of the outer try. first is what detect_food_with_google_vision
\* did when classify_topk itself called it (consulted only when
\* GOOGLE_VISION_API_KEY is set; its exception is caught by the inner
\* except); hybrid_raises says whether recognize_food_hybrid raised
TryBlock(google_api_key, first, hybrid_raises, res, feat, k) ==
    IF google_api_key /\ first # Raised /\ first.confidence >= 75
    THEN Returned("google", PrimaryAndRelated(first, generate_related_foods(first.food), k))
    ELSE IF hybrid_raises THEN RaisedOut
    ELSE Returned("hybrid", HybridTopk(res, feat, k))

final_fallback ==
    <<Entry("mixed dish", 50, 1), Entry("vegetables", 30, 1), Entry("side dish", 20, 1)>>

\* a variant whose except clause has no inner try
ExceptBlockUnguarded(robust, k) ==
    IF robust = Raised THEN RaisedOut
    ELSE Returned("robust", PrimaryAndRelated(robust, generate_related_foods(robust.food), k))

\* the outer except clause: the robust detector, and the fixed list when
\* that raises too
ExceptBlock(robust, k) ==
    IF robust = Raised THEN Returned("fixed", Take(final_fallback, k))
    ELSE Returned("robust", PrimaryAndRelated(robust, generate_related_foods(robust.food), k))

RECURSIVE TryExcept(_, _, _)
TryExcept(tried, robust, k) ==
    IF tried.raised THEN ExceptBlock(robust, k) ELSE tried

classify_topk(google_api_key, first, hybrid_raises, res, feat, robust, k) ==
    TryExcept(TryBlock(google_api_key, first, hybrid_raises, res, feat, k), robust, k)

-----------------------------------------------------------------------------
(* routers/analyze.py *)

NoException == [kind |-> "none", status |-> 0, detail |-> "", at |-> "",
                context_status |-> 0]

HTTPException(status_code, detail, at, context_status) ==
    [kind |-> "http", status |-> status_code, detail |-> detail, at |-> at,
     context_status |-> context_status]

OtherException(message, at) ==
    [kind |-> "other", status |-> 0, detail |-> message, at |-> at,
     context_status |-> 0]

\* the image behind image_b64: whether it decodes, its size and mode, and
\* the colour ratios (in hundredths) determine_fallback_food computes
NoImage == [decodes |-> FALSE, width |-> 0, height |-> 0, mode |-> None,
            green |-> 0, brown |-> 0, white |-> 0]

min_side == 50
max_side == 4000
resize_side == 1024

\* what the validation block raises inside its try, NoException if nothing
ValidationRaises(im) ==
    IF ~im.decodes THEN OtherException("cannot identify image file", "validate")
    ELSE IF im.width < min_side \/ im.height < min_side
    THEN HTTPException(422, "Image too small for analysis. Please upload a clearer image.",
                       "validate", 0)
    ELSE IF (im.width > max_side \/ im.height > max_side) /\ im.mode # "RGB"
    THEN OtherException("cannot write mode as JPEG", "validate")
    ELSE NoException

\* the image held in img after the validation block
Validated(im) ==
    IF im.width > max_side \/ im.height > max_side
    THEN [im EXCEPT !.width = Min(im.width, resize_side),
                    !.height = Min(im.height, resize_side)]
    ELSE im

\* a validation block without its except clause
InnerHandlerReraise(e) == e

\* except Exception of the validation block: HTTPException is an Exception
InnerHandler(e) ==
    HTTPException(400, "Unable to process image. Please upload a valid food image.",
                  e.at, e.status)

\* a handler with the single clause "except Exception"
OuterHandlerAll500(e) ==
    [status |-> 500, detail |-> "Analysis failed: " \o e.detail]

OuterHandler(e) ==
    IF e.kind = "http" THEN [status |-> e.status, detail |-> e.detail]
    ELSE [status |-> 500, detail |-> "Analysis failed: " \o e.detail]

determine_fallback_food(im) ==
    IF im.green > 20 THEN "vegetables"
    ELSE IF im.brown > 25 THEN "cooked food"
    ELSE IF im.white > 30 THEN "rice"
    ELSE "mixed dish"

-----------------------------------------------------------------------------
(* generator.py: nutrition resolver *)
(* Grams of serving and kcal and mg are integers; the *_g nutrient fields   *)
(* are in tenths of a gram, the precision round(x, 1) keeps.                *)

\* the result "no data" of a lookup (Python None)
NoData == [serving_size_g |-> 0, calories |-> 0, protein_g |-> 0, carbs_g |-> 0,
           fat_g |-> 0, fiber_g |-> 0, sugar_g |-> 0, sodium_mg |-> 0,
           cholesterol_mg |-> 0]

\* serving_grams=None
NoServing == 0

\* round(): the quotient n / d to the nearest integer, halves to even
RoundHalfEven(n, d) ==
    LET q == n \div d
        r == n % d
    IN  IF 2 * r < d THEN q
        ELSE IF 2 * r > d THEN q + 1
        ELSE IF q % 2 = 0 THEN q ELSE q + 1

\* str.split(): the words of s in order; word is the word being read and
\* acc the words read so far
RECURSIVE Split(_, _, _)
Split(s, word, acc) ==
    IF s = "" THEN IF word = "" THEN acc ELSE Append(acc, word)
    ELSE IF SubSeq(s, 1, 1) = " "
    THEN Split(SubSeq(s, 2, Len(s)), "", IF word = "" THEN acc ELSE Append(acc, word))
    ELSE Split(SubSeq(s, 2, Len(s)), word \o SubSeq(s, 1, 1), acc)

WordSeq(s) == Split(s, "", <<>>)

\* set(words)
RECURSIVE SetOf(_)
SetOf(ws) == { ws[i] : i \in 1..Len(ws) }

\* set(s.split())
Words(s) == SetOf(WordSeq(s))

key_words == {"chicken", "beef", "fish", "pizza", "salad", "rice", "pasta",
              "bread", "fruit"}

\* the similarity of two names with the word sets words1 and words2, as the
\* quotient num / den
RECURSIVE SimilarityOf(_, _, _, _)
SimilarityOf(food1, food2, words1, words2) ==
    LET common_words == words1 \cap words2
        union_words == words1 \cup words2
        \* jaccard + 0.2 per common key word, over the denominator 5 * |union|
        boosted == 5 * Cardinality(common_words)
                   + Cardinality(common_words \cap key_words) * Cardinality(union_words)
        den == 5 * Cardinality(union_words)
    IN  IF food1 = food2 THEN [num |-> 1, den |-> 1]
        ELSE IF common_words = {} THEN [num |-> 0, den |-> 1]
        ELSE [num |-> Min(boosted, den), den |-> den]

calculate_food_similarity(food1, food2) ==
    SimilarityOf(food1, food2, Words(food1), Words(food2))

\* NUTRITION_DB is a sequence of <<key, data>> in the dict's insertion order
\* a lookup that never finds the key itself
NeverHasKey(db, key) == FALSE
HasKey(db, key) == \E i \in 1..Len(db) : db[i][1] = key
Lookup(db, key) == db[CHOOSE i \in 1..Len(db) : db[i][1] = key][2]

\* the loop of the fuzzy match over the entries from the i-th one on;
\* FuzzyStep is one pass of the loop body with the entry's score
RECURSIVE FuzzyFrom(_, _, _, _, _)
RECURSIVE FuzzyStep(_, _, _, _, _, _)
FuzzyStep(db, food_lower, i, best_match, best_score, score) ==
    IF /\ score.num * best_score.den > best_score.num * score.den
       /\ 2 * score.num > score.den
    THEN FuzzyFrom(db, food_lower, i + 1, db[i][2], score)
    ELSE FuzzyFrom(db, food_lower, i + 1, best_match, best_score)

FuzzyFrom(db, food_lower, i, best_match, best_score) ==
    IF i > Len(db) THEN best_match
    ELSE FuzzyStep(db, food_lower, i, best_match, best_score,
                   calculate_food_similarity(food_lower, db[i][1]))

\* the lookup once food_lower and the fuzzy loop's best_match are known
RECURSIVE DatabaseAnswer(_, _, _, _)
DatabaseAnswer(db, food_lower, best_match, remote) ==
    IF HasKey(db, food_lower)
    THEN [data |-> Lookup(db, food_lower), db |-> db, source |-> "direct"]
    ELSE IF best_match # NoData
    THEN [data |-> best_match, db |-> db, source |-> "fuzzy"]
    ELSE IF remote # NoData
    THEN [data |-> remote, db |-> Append(db, <<food_lower, remote>>),
          source |-> "remote"]
    ELSE [data |-> NoData, db |-> db, source |-> "estimate"]

\* returns the data (or NoData) and the database after the call; remote is
\* what get_nutrition_from_fooddata_central answers for this name
RECURSIVE get_nutrition_from_database(_, _, _)
get_nutrition_from_database(db, name, remote) ==
    DatabaseAnswer(db, Strip(Lower(name)),
                   FuzzyFrom(db, Strip(Lower(name)), 1, NoData, [num |-> 0, den |-> 1]),
                   remote)

\* the keyword buckets: base values for 150 g
EstimateBase(food_lower) ==
    IF AnyIn(food_lower, {"chicken", "turkey", "beef", "pork", "lamb", "fish",
                          "salmon", "tuna", "shrimp", "eggs", "meat"})
    THEN LET fried == ~(Contains(food_lower, "grilled") \/ Contains(food_lower, "baked"))
                      /\ Contains(food_lower, "fried")
             lean == Contains(food_lower, "grilled") \/ Contains(food_lower, "baked")
         IN  [calories |-> IF fried THEN 380 ELSE 280, protein_g |-> 350,
              carbs_g |-> 20,
              fat_g |-> IF lean THEN 90 ELSE IF fried THEN 200 ELSE 120,
              fiber_g |-> 0, sugar_g |-> 0, sodium_mg |-> 80, cholesterol_mg |-> 100]
    ELSE IF AnyIn(food_lower, {"rice", "pasta", "bread", "potato", "quinoa", "noodles"})
    THEN [calories |-> 210, protein_g |-> 60, carbs_g |-> 430, fat_g |-> 10,
          fiber_g |-> 20, sugar_g |-> 10, sodium_mg |-> 5, cholesterol_mg |-> 0]
    ELSE IF AnyIn(food_lower, {"salad", "vegetable", "broccoli", "spinach",
                               "carrots", "peppers", "green"})
    THEN IF Contains(food_lower, "salad")
         THEN [calories |-> 130, protein_g |-> 30, carbs_g |-> 100, fat_g |-> 85,
               fiber_g |-> 40, sugar_g |-> 60, sodium_mg |-> 230, cholesterol_mg |-> 0]
         ELSE [calories |-> 50, protein_g |-> 30, carbs_g |-> 100, fat_g |-> 5,
               fiber_g |-> 40, sugar_g |-> 60, sodium_mg |-> 30, cholesterol_mg |-> 0]
    ELSE IF AnyIn(food_lower, {"fruit", "apple", "banana", "berries", "mango",
                               "watermelon", "strawberries"})
    THEN [calories |-> 80, protein_g |-> 10, carbs_g |-> 200, fat_g |-> 3,
          fiber_g |-> 30, sugar_g |-> 150, sodium_mg |-> 2, cholesterol_mg |-> 0]
    ELSE IF AnyIn(food_lower, {"pizza", "burger", "tacos", "sandwich", "burrito"})
    THEN [calories |-> 350, protein_g |-> 180, carbs_g |-> 400, fat_g |-> 150,
          fiber_g |-> 30, sugar_g |-> 40, sodium_mg |-> 600, cholesterol_mg |-> 45]
    ELSE IF AnyIn(food_lower, {"cake", "pie", "cookies", "ice cream", "brownie",
                               "chocolate"})
    THEN [calories |-> 380, protein_g |-> 50, carbs_g |-> 550, fat_g |-> 160,
          fiber_g |-> 20, sugar_g |-> 450, sodium_mg |-> 350, cholesterol_mg |-> 65]
    ELSE IF AnyIn(food_lower, {"soup", "broth", "stew"})
    THEN [calories |-> 120, protein_g |-> 60, carbs_g |-> 180, fat_g |-> 30,
          fiber_g |-> 20, sugar_g |-> 40, sodium_mg |-> 500, cholesterol_mg |-> 5]
    ELSE [calories |-> 200, protein_g |-> 150, carbs_g |-> 250, fat_g |-> 80,
          fiber_g |-> 20, sugar_g |-> 50, sodium_mg |-> 250, cholesterol_mg |-> 30]

\* the serving assumed by the estimate when none is given
EstimateServing(food_lower) ==
    IF AnyIn(food_lower, {"soup", "smoothie", "juice", "shake"}) THEN 250
    ELSE IF AnyIn(food_lower, {"salad", "vegetables", "fruits"}) THEN 200
    ELSE IF AnyIn(food_lower, {"steak", "tenderloin", "chops"}) THEN 180
    ELSE 150

estimate_baseline_g == 150

\* the base value returned whatever the serving
Unscaled(value, target_serving, base_serving) == value

\* round(value * (target_serving / base_serving)); a *_g value in tenths
\* gives round(., 1) in tenths
Scaled(value, target_serving, base_serving) ==
    RoundHalfEven(value * target_serving, base_serving)

RECURSIVE ScaleAll(_, _, _)
ScaleAll(base, target_serving, base_serving) ==
    [serving_grams |-> target_serving,
     calories |-> Scaled(base.calories, target_serving, base_serving),
     protein_g |-> Scaled(base.protein_g, target_serving, base_serving),
     carbs_g |-> Scaled(base.carbs_g, target_serving, base_serving),
     fat_g |-> Scaled(base.fat_g, target_serving, base_serving),
     fiber_g |-> Scaled(base.fiber_g, target_serving, base_serving),
     sugar_g |-> Scaled(base.sugar_g, target_serving, base_serving),
     sodium_mg |-> Scaled(base.sodium_mg, target_serving, base_serving),
     cholesterol_mg |-> Scaled(base.cholesterol_mg, target_serving, base_serving)]

\* the nutrition dict once the lookup has answered found
RECURSIVE NutritionFrom(_, _, _)
NutritionFrom(found, food_lower, serving_grams) ==
    IF found.data # NoData
    THEN [info |-> ScaleAll(found.data,
                            IF serving_grams # NoServing THEN serving_grams
                            ELSE found.data.serving_size_g,
                            found.data.serving_size_g),
          db |-> found.db, source |-> found.source]
    ELSE [info |-> ScaleAll(EstimateBase(food_lower),
                            IF serving_grams # NoServing THEN serving_grams
                            ELSE EstimateServing(food_lower),
                            estimate_baseline_g),
          db |-> found.db, source |-> found.source]

\* returns the nutrition dict, the database after the call and the source
calculate_dynamic_nutrition(db, name, serving_grams, remote) ==
    NutritionFrom(get_nutrition_from_database(db, name, remote), Lower(name),
                  serving_grams)

\* rows of the nutrition JSON as loaded at startup (sample rows)
Row(serving, kcal, protein, carbs, fat, fiber, sugar, sodium, chol) ==
    [serving_size_g |-> serving, calories |-> kcal, protein_g |-> protein,
     carbs_g |-> carbs, fat_g |-> fat, fiber_g |-> fiber, sugar_g |-> sugar,
     sodium_mg |-> sodium, cholesterol_mg |-> chol]

LoadedDB == <<
    <<"apple", Row(182, 95, 5, 250, 3, 44, 190, 2, 0)>>,
    <<"grilled chicken", Row(100, 165, 310, 0, 36, 0, 0, 74, 85)>>,
    <<"pizza", Row(107, 285, 120, 360, 100, 25, 38, 640, 18)>>,
    <<"rice", Row(158, 205, 43, 450, 4, 6, 1, 2, 0)>>,
    <<"caesar salad", Row(150, 190, 70, 80, 150, 20, 20, 360, 20)>> >>

\* answers of the FoodData Central lookup: nothing, or a 100 g record
RemoteAnswers == {NoData, Row(100, 61, 11, 150, 5, 30, 90, 3, 0)}

\* names handed to the resolver: direct keys, fuzzy matches, unknown names
NutritionFoods == {"pizza", "Rice ", "chicken salad", "grilled chicken breast",
                   "kiwi", "mystery stew", "fried fish", "green beans"}

-----------------------------------------------------------------------------
(* generator.py: profile and recipes *)
(* In a profile, calories are in hundredths of a kcal and the macros in     *)
(* hundredths of a gram, the precision the dietary adjustments need.        *)

\* str.upper() on one character
ToUpper == [ c \in { LowerChars[i] : i \in 1..26 } |->
               UpperChars[CHOOSE i \in 1..26 : LowerChars[i] = c] ]

IsLetter(c) == c \in DOMAIN ToLower \/ c \in DOMAIN ToUpper

UpperChar(c) == IF c \in DOMAIN ToUpper THEN ToUpper[c] ELSE c

\* str.title(): a letter after a letter is lowered, any other letter raised
RECURSIVE TitleFrom(_, _)
TitleFrom(s, after_letter) ==
    IF Len(s) = 0 THEN ""
    ELSE LET c == SubSeq(s, 1, 1)
         IN  (IF after_letter THEN LowerChar(c) ELSE UpperChar(c))
             \o TitleFrom(SubSeq(s, 2, Len(s)), IsLetter(c))

Title(s) == TitleFrom(s, FALSE)

\* str.replace(old, new)
RECURSIVE Replace(_, _, _)
Replace(s, old, new) ==
    IF Len(s) < Len(old) THEN s
    ELSE IF SubSeq(s, 1, Len(old)) = old
         THEN new \o Replace(SubSeq(s, Len(old) + 1, Len(s)), old, new)
         ELSE SubSeq(s, 1, 1) \o Replace(SubSeq(s, 2, Len(s)), old, new)

\* notes=None
NoNotes == None

\* the recipe cards; cost_estimate_usd in cents
RECURSIVE generate_dynamic_recipes(_, _)
generate_dynamic_recipes(name, nutrition_info) ==
    LET ws == WordSeq(name)
        main_ingredient == IF name = "" THEN "ingredient" ELSE ws[Len(ws)]
        healthy == [title |-> "Healthier " \o Title(name),
                    main_ingredient |-> main_ingredient,
                    time_minutes |-> 25,
                    cost_estimate_usd |-> 800 + 20 * Len(name)]
        quick == [title |-> "Quick " \o Title(name) \o " Bowl",
                  main_ingredient |-> main_ingredient,
                  time_minutes |-> 15,
                  cost_estimate_usd |-> 600 + 15 * Len(name)]
        meal_prep == [title |-> "Meal Prep " \o Title(name),
                      main_ingredient |-> main_ingredient,
                      time_minutes |-> 45,
                      cost_estimate_usd |-> 2500 + 50 * Len(name)]
    IN  IF nutrition_info.calories > 300 THEN <<healthy, quick, meal_prep>>
        ELSE <<healthy, meal_prep>>

meat_words == {"chicken", "beef", "pork", "fish", "turkey"}

\* the profile built from the nutrition dict, before the notes
BaseProfile(name, info) ==
    [name |-> name,
     serving_grams |-> info.serving_grams,
     calories |-> 100 * info.calories,
     macros |-> [protein_g |-> 10 * info.protein_g,
                 carbs_g |-> 10 * info.carbs_g,
                 fat_g |-> 10 * info.fat_g],
     micronutrients |-> [fiber_g |-> 10 * info.fiber_g,
                         sugar_g |-> 10 * info.sugar_g,
                         sodium_mg |-> info.sodium_mg,
                         cholesterol_mg |-> info.cholesterol_mg]]

\* the adjustment for the dietary notes
RECURSIVE AdjustForNotes(_, _, _)
AdjustForNotes(prof, main_food, notes) ==
    IF notes = NoNotes \/ notes = "" THEN prof
    ELSE LET notes_lower == Lower(notes)
         IN  IF Contains(notes_lower, "low carb") \/ Contains(notes_lower, "keto")
             THEN LET carbs == prof.macros.carbs_g \div 2
                  IN  [prof EXCEPT !.macros.carbs_g = carbs,
                                   !.calories = @ - 2 * carbs]
             ELSE IF Contains(notes_lower, "high protein")
             THEN LET protein == (prof.macros.protein_g * 3) \div 2
                  IN  [prof EXCEPT !.macros.protein_g = protein,
                                   !.calories = @ + 2 * protein]
             ELSE IF /\ Contains(notes_lower, "vegan") \/ Contains(notes_lower, "vegetarian")
                     /\ AnyIn(Lower(main_food), meat_words)
             THEN [prof EXCEPT
                     !.name = Replace(Replace(Replace(main_food, "chicken", "tofu"),
                                              "beef", "tempeh"), "pork", "seitan"),
                     !.micronutrients.cholesterol_mg = 0]
             ELSE prof

\* the recipes written for the profile as the notes left it
RecipesAfterNotes(main_food, notes, r) ==
    [profile |-> AdjustForNotes(BaseProfile(main_food, r.info), main_food, notes),
     recipes |-> generate_dynamic_recipes(
                     AdjustForNotes(BaseProfile(main_food, r.info), main_food, notes).name,
                     [calories |-> AdjustForNotes(BaseProfile(main_food, r.info),
                                                  main_food, notes).calories \div 100]),
     db |-> r.db]

\* the recommendation once the nutrition dict is known
RECURSIVE RecommendationFrom(_, _, _)
RecommendationFrom(main_food, notes, r) ==
    [profile |-> AdjustForNotes(BaseProfile(main_food, r.info), main_food, notes),
     recipes |-> generate_dynamic_recipes(main_food, r.info),
     db |-> r.db]

\* returns the recommendation and the database after the call
generate_profile_and_recipes(db, top, notes, remote) ==
    RecommendationFrom(top[1].food, notes,
                       calculate_dynamic_nutrition(db, top[1].food, NoServing, remote))

-----------------------------------------------------------------------------
(* verifier.py *)

\* rows of canonical_foods.csv (sample rows): name, calories in hundredths
\* of a kcal, serving_grams
_CANON == <<
    [name |-> "Banana", calories |-> 10500, serving_grams |-> 118],
    [name |-> "grilled chicken", calories |-> 16500, serving_grams |-> 100],
    [name |-> "rice", calories |-> 20500, serving_grams |-> 158],
    [name |-> "pizza", calories |-> 28500, serving_grams |-> 107],
    [name |-> "water", calories |-> 0, serving_grams |-> 240] >>

Abs(x) == IF x < 0 THEN -x ELSE x
Max(a, b) == IF a >= b THEN a ELSE b

unknown_confidence == 30

\* an unknown food reported as supported
UnknownItemSupported(name) ==
    [claim |-> "Unknown food: " \o name, status |-> "supported",
     evidence |-> "Not found in canonical subset",
     confidence |-> 85]

\* the item appended when no row of the table has the name
UnknownItem(name) ==
    [claim |-> "Unknown food: " \o name, status |-> "flagged",
     evidence |-> "Not found in canonical subset",
     confidence |-> unknown_confidence]

\* confidences in hundredths
RECURSIVE verify_profile(_)
verify_profile(profile) ==
    LET rows == { i \in 1..Len(_CANON) : Lower(_CANON[i].name) = Lower(profile.name) }
    IN  IF rows # {}
        THEN LET r == _CANON[CHOOSE i \in rows : \A j \in rows : i <= j]
                 target == r.calories
                 \* delta <= 0.15 with delta = |calories - target| / max(1.0, target)
                 ok == 100 * Abs(profile.calories - target) <= 15 * Max(100, target)
                 item == [claim |-> "Calories", status |-> IF ok THEN "supported" ELSE "flagged",
                          evidence |-> "Canonical",
                          confidence |-> IF ok THEN 85 ELSE 45]
             IN  [items |-> <<item>>, overall_confidence |-> item.confidence]
        ELSE [items |-> <<UnknownItem(profile.name)>>,
              overall_confidence |-> unknown_confidence]

-----------------------------------------------------------------------------
(* The rule-based classifiers of food_recognizer.py and robust_food_detection.py *)

\* The image after resize((224, 224)) is a sequence of pixel classes, each a
\* colour rgb with the share of the pixels (in hundredths) that have it,
\* together with what the layout of the pixels decides: the texture class
\* and texture_complexity, whether aspect_ratio is 1, and roundness (in
\* hundredths). Ratios are in hundredths; scores are exact fractions.

Shares(pixels) == [ i \in DOMAIN pixels |-> pixels[i].share ]

\* AdvancedFoodRecognizer.analyze_visual_features: the mask of each ratio
AdvancedMask(color, p) ==
    LET r == p[1]
        g == p[2]
        b == p[3]
    IN  CASE color = "red" -> r > 120 /\ r > g + 20 /\ r > b + 20
          [] color = "green" -> g > 100 /\ g > r + 20 /\ g > b + 20
          [] color = "brown" -> r > 80 /\ r < 160 /\ g > 40 /\ g < 120 /\ b < 80 /\ r > g
          [] color = "yellow" -> r > 150 /\ g > 150 /\ b < 120 /\ r > b + 30
          [] color = "white" -> r > 180 /\ g > 180 /\ b > 180 /\ Abs(r - g) < 30
          [] color = "black" -> r < 70 /\ g < 70 /\ b < 70

AdvancedColors == {"red", "green", "brown", "yellow", "white", "black"}

analyze_visual_features(im) ==
    [ratio |-> [ c \in AdvancedColors |->
                  SumOver({ i \in DOMAIN im.pixels : AdvancedMask(c, im.pixels[i].rgb) },
                          Shares(im.pixels)) ],
     texture_complexity |-> im.texture_complexity,
     aspect_ratio_one |-> im.aspect_ratio_one,
     roundness |-> im.roundness]

food_features ==
    <<
     [name |-> "pizza", colors |-> <<<<"red", 15>>, <<"yellow", 20>>, <<"brown", 10>>>>,
      confidence_boost |-> 90],
     [name |-> "burger", colors |-> <<<<"brown", 30>>, <<"green", 10>>, <<"yellow", 5>>>>,
      confidence_boost |-> 85],
     [name |-> "pasta", colors |-> <<<<"yellow", 20>>, <<"red", 10>>, <<"white", 15>>>>,
      confidence_boost |-> 80],
     [name |-> "sushi", colors |-> <<<<"white", 30>>, <<"black", 10>>, <<"red", 5>>>>,
      confidence_boost |-> 85],
     [name |-> "grilled chicken", colors |-> <<<<"brown", 40>>, <<"white", 10>>>>,
      confidence_boost |-> 80],
     [name |-> "steak", colors |-> <<<<"brown", 30>>, <<"red", 15>>>>,
      confidence_boost |-> 85],
     [name |-> "grilled fish", colors |-> <<<<"white", 35>>, <<"brown", 10>>>>,
      confidence_boost |-> 75],
     [name |-> "salad", colors |-> <<<<"green", 40>>, <<"red", 5>>>>,
      confidence_boost |-> 90],
     [name |-> "fruit bowl", colors |-> <<<<"red", 20>>, <<"yellow", 15>>, <<"green", 10>>>>,
      confidence_boost |-> 85],
     [name |-> "smoothie bowl", colors |-> <<<<"red", 15>>, <<"white", 10>>>>,
      confidence_boost |-> 80]
    >>

\* the score of one food in the detailed scoring, in 1/10000
FoodScore(features, fd) ==
    LET color(j) == IF features.ratio[fd.colors[j][1]] >= fd.colors[j][2] THEN 40
                    ELSE IF 2 * features.ratio[fd.colors[j][1]] >= fd.colors[j][2] THEN 20
                    ELSE 0
        texture == features.texture_complexity
        texture_score ==
            IF fd.name \in {"pizza", "burger", "pasta"} /\ texture > 100 THEN 30
            ELSE IF fd.name \in {"salad", "fruit bowl"} /\ texture > 80 THEN 30
            ELSE IF fd.name \in {"smoothie bowl", "soup"} /\ texture < 50 THEN 30
            ELSE 0
        shape_score == IF fd.name \in {"pizza", "burger"} /\ features.roundness > 60
                       THEN 20 ELSE 0
    IN  Min((SumOver(DOMAIN fd.colors, [ j \in DOMAIN fd.colors |-> color(j) ])
               + texture_score + shape_score) * fd.confidence_boost, 9200)

\* sorted(scores.items(), key=score, reverse=True)[0]: the first food of
\* the table with the highest score, its confidence raised to 0.70
RECURSIVE BestScored(_)
BestScored(scores) ==
    LET best == CHOOSE i \in DOMAIN scores :
                    /\ \A j \in DOMAIN scores : scores[j] <= scores[i]
                    /\ \A j \in 1..(i - 1) : scores[j] < scores[i]
    IN  Entry(food_features[best].name, Max(scores[best], 7000), 100)

\* AdvancedFoodRecognizer.classify_by_features (the fallback after the
\* scoring is not reached: scores is never empty)
RECURSIVE classify_by_features(_)
classify_by_features(features) ==
    LET green_ratio == features.ratio["green"]
        red_ratio == features.ratio["red"]
        brown_ratio == features.ratio["brown"]
        yellow_ratio == features.ratio["yellow"]
        white_ratio == features.ratio["white"]
        texture == features.texture_complexity
    IN  IF green_ratio > 40 THEN Entry("mixed salad", 85, 1)
        ELSE IF brown_ratio > 20 /\ green_ratio > 5 /\ ~features.aspect_ratio_one
        THEN Entry("burger", 86, 1)
        ELSE IF red_ratio > 10 /\ (yellow_ratio > 10 \/ white_ratio > 10) /\ brown_ratio < 30
        THEN Entry("pizza", 88, 1)
        ELSE IF white_ratio > 50 /\ texture < 100 THEN Entry("white rice", 82, 1)
        ELSE IF (yellow_ratio > 20 \/ red_ratio > 15) /\ white_ratio > 20
        THEN Entry("pasta with sauce", 80, 1)
        ELSE IF brown_ratio > 25 /\ texture > 150 THEN Entry("grilled chicken breast", 78, 1)
        ELSE IF red_ratio > 10 /\ (green_ratio > 5 \/ yellow_ratio > 5)
        THEN Entry("fruit bowl", 75, 1)
        ELSE BestScored([ i \in DOMAIN food_features |->
                            FoodScore(features, food_features[i]) ])

\* hf is what classify_with_huggingface returned, None when the service is
\* not available
RECURSIVE get_free_food_recognition(_, _)
get_free_food_recognition(hf, features) ==
    IF hf # NoDetection /\ hf.confidence > 70 THEN Entry(hf.food, hf.confidence, 1)
    ELSE classify_by_features(features)

\* RobustFoodDetector._analyze_colors: the mask of each colour
RobustMask(color, p) ==
    LET r == p[1]
        g == p[2]
        b == p[3]
        white_mask == r > 200 /\ g > 200 /\ b > 200
        black_mask == r < 50 /\ g < 50 /\ b < 50
        yellow_mask == r > 180 /\ g > 180 /\ b < 150
    IN  CASE color = "white" -> white_mask
          [] color = "black" -> black_mask
          [] color = "gray" -> ~white_mask /\ ~black_mask /\ Abs(r - g) < 20 /\ Abs(g - b) < 20
          [] color = "brown" -> r > 100 /\ r < 180 /\ g > 50 /\ g < 130 /\ b < 100
                                /\ r > g /\ g > b
          [] color = "red" -> r > 150 /\ r > g + 50 /\ r > b + 50
          [] color = "green" -> g > 100 /\ g > r + 30 /\ g > b + 30
          [] color = "yellow" -> yellow_mask
          [] color = "orange" -> r > 180 /\ g > 100 /\ g < 180 /\ b < 100 /\ ~yellow_mask
          [] color = "blue" -> b > 100 /\ b > r + 30 /\ b > g + 30
          [] color = "purple" -> r > 100 /\ b > 100 /\ g < 100
          [] color = "pink" -> r > 180 /\ g > 100 /\ g < 180 /\ b > 100 /\ b < 180
          [] color = "beige" -> r > 180 /\ r < 220 /\ g > 160 /\ g < 200 /\ b > 120 /\ b < 180

RobustColors == {"red", "orange", "yellow", "green", "blue", "purple", "pink", "brown",
                 "white", "black", "gray", "beige"}

_analyze_colors(pixels) ==
    [ c \in RobustColors |->
        SumOver({ i \in DOMAIN pixels : RobustMask(c, pixels[i].rgb) }, Shares(pixels)) ]

\* colors.get(color, 0)
ColorRatio(colors, color) == IF color \in DOMAIN colors THEN colors[color] ELSE 0

\* the first group with the largest value (the values doubled)
RECURSIVE FirstMax(_)
FirstMax(groups) ==
    groups[CHOOSE i \in DOMAIN groups :
              /\ \A j \in DOMAIN groups : groups[j][2] <= groups[i][2]
              /\ \A j \in 1..(i - 1) : groups[j][2] < groups[i][2]][1]

\* RobustFoodDetector._get_dominant_color
RECURSIVE Robust_get_dominant_color(_)
Robust_get_dominant_color(colors) ==
    FirstMax(<< <<"green_dominant", 2 * colors["green"]>>,
                <<"red_dominant", 2 * colors["red"] + colors["pink"]>>,
                <<"brown_dominant", 2 * colors["brown"] + colors["beige"]>>,
                <<"yellow_dominant", 2 * colors["yellow"] + colors["orange"]>>,
                <<"white_dominant", 2 * colors["white"] + colors["gray"]>>,
                <<"orange_dominant", 2 * colors["orange"]>>,
                <<"mixed_colors",
                  2 * (100 - (CHOOSE v \in { colors[c] : c \in DOMAIN colors } :
                                 \A c \in DOMAIN colors : colors[c] <= v))>> >>)

\* RobustFoodDetector._extract_features, as far as detect_food reads it
RECURSIVE FeaturesOf(_, _)
FeaturesOf(colors, texture) ==
    [colors |-> colors, texture |-> texture,
     dominant_color |-> Robust_get_dominant_color(colors)]

_extract_features(im) == FeaturesOf(_analyze_colors(im.pixels), im.texture)

food_characteristics ==
    <<
     [name |-> "pizza", colors |-> <<<<"red", 15>>, <<"yellow", 10>>, <<"brown", 5>>, <<"white", 10>>>>,
      texture |-> "mixed"],
     [name |-> "burger", colors |-> <<<<"brown", 20>>, <<"yellow", 5>>, <<"green", 5>>, <<"red", 5>>>>,
      texture |-> "layered"],
     [name |-> "french fries", colors |-> <<<<"yellow", 30>>, <<"brown", 10>>>>,
      texture |-> "uniform"],
     [name |-> "hot dog", colors |-> <<<<"brown", 15>>, <<"red", 10>>, <<"yellow", 5>>>>,
      texture |-> "smooth"],
     [name |-> "sushi", colors |-> <<<<"white", 20>>, <<"red", 5>>, <<"black", 5>>, <<"green", 2>>>>,
      texture |-> "structured"],
     [name |-> "fried rice", colors |-> <<<<"brown", 10>>, <<"yellow", 15>>, <<"white", 20>>>>,
      texture |-> "mixed"],
     [name |-> "noodles", colors |-> <<<<"yellow", 20>>, <<"brown", 10>>, <<"white", 15>>>>,
      texture |-> "smooth"],
     [name |-> "curry", colors |-> <<<<"orange", 25>>, <<"brown", 20>>, <<"yellow", 15>>>>,
      texture |-> "smooth"],
     [name |-> "salad", colors |-> <<<<"green", 40>>, <<"red", 5>>, <<"yellow", 5>>>>,
      texture |-> "leafy"],
     [name |-> "fruit bowl", colors |-> <<<<"red", 15>>, <<"yellow", 10>>, <<"orange", 10>>, <<"green", 5>>>>,
      texture |-> "varied"],
     [name |-> "smoothie", colors |-> <<<<"pink", 20>>, <<"purple", 15>>, <<"green", 10>>>>,
      texture |-> "smooth"],
     [name |-> "grilled chicken", colors |-> <<<<"brown", 35>>, <<"white", 10>>>>,
      texture |-> "fibrous"],
     [name |-> "steak", colors |-> <<<<"brown", 30>>, <<"red", 10>>, <<"dark", 20>>>>,
      texture |-> "fibrous"],
     [name |-> "grilled fish", colors |-> <<<<"white", 25>>, <<"brown", 10>>, <<"gray", 10>>>>,
      texture |-> "delicate"],
     [name |-> "eggs", colors |-> <<<<"yellow", 25>>, <<"white", 30>>>>,
      texture |-> "smooth"],
     [name |-> "pancakes", colors |-> <<<<"brown", 25>>, <<"yellow", 15>>>>,
      texture |-> "smooth"],
     [name |-> "oatmeal", colors |-> <<<<"beige", 40>>, <<"brown", 10>>>>,
      texture |-> "chunky"],
     [name |-> "rice", colors |-> <<<<"white", 60>>, <<"light", 20>>>>,
      texture |-> "uniform"],
     [name |-> "pasta", colors |-> <<<<"yellow", 25>>, <<"white", 20>>, <<"red", 10>>>>,
      texture |-> "smooth"],
     [name |-> "bread", colors |-> <<<<"brown", 20>>, <<"beige", 30>>>>,
      texture |-> "porous"]
    >>

color_food_map ==
    [green_dominant |-> <<"salad", "broccoli", "green smoothie", "vegetables">>,
     red_dominant |-> <<"tomato soup", "pizza", "strawberries", "watermelon">>,
     brown_dominant |-> <<"steak", "grilled chicken", "chocolate", "bread">>,
     yellow_dominant |-> <<"pasta", "corn", "banana", "eggs">>,
     white_dominant |-> <<"rice", "milk", "yogurt", "mozzarella">>,
     orange_dominant |-> <<"curry", "carrots", "orange juice", "sweet potato">>,
     mixed_colors |-> <<"pizza", "burger", "salad", "fruit bowl">>]

\* the score of one food in _match_by_features, in 1/1200
MatchScore(features, fc) ==
    LET detected_ratio(j) == ColorRatio(features.colors, fc.colors[j][1])
        color(j) == IF detected_ratio(j) <= 0 THEN 0
                    ELSE IF detected_ratio(j) >= fc.colors[j][2] THEN 30
                    ELSE IF 2 * detected_ratio(j) >= fc.colors[j][2] THEN 15
                    ELSE 0
        color_score == SumOver(DOMAIN fc.colors, [ j \in DOMAIN fc.colors |-> color(j) ])
        dominant == features.dominant_color
        special == IF fc.name = "salad" /\ dominant = "green_dominant" THEN 480
                   ELSE IF fc.name = "pizza" /\ features.colors["red"] > 10 THEN 360
                   ELSE IF fc.name = "rice" /\ dominant = "white_dominant" THEN 480
                   ELSE IF fc.name = "steak" /\ dominant = "brown_dominant" THEN 480
                   ELSE 0
    IN  (12 * color_score) \div Len(fc.colors) + special
          + (IF features.texture = fc.texture THEN 240 ELSE 0)

NoMatch == Entry(None, 0, 1)
NoPixels == [pixels |-> <<>>, texture |-> "", texture_complexity |-> 0,
             aspect_ratio_one |-> TRUE, roundness |-> 0]

\* the first food with the largest score; a match when that exceeds 0.3,
\* with confidence min(0.6 + best_score * 0.4, 0.95)
RECURSIVE BestMatch(_)
BestMatch(scores) ==
    LET best == CHOOSE i \in DOMAIN scores :
                    /\ \A j \in DOMAIN scores : scores[j] <= scores[i]
                    /\ \A j \in 1..(i - 1) : scores[j] < scores[i]
    IN  IF scores[best] > 360
        THEN Entry(food_characteristics[best].name, Min(1800 + scores[best], 2850), 30)
        ELSE NoMatch

\* RobustFoodDetector._match_by_features
_match_by_features(features) ==
    BestMatch([ i \in DOMAIN food_characteristics |->
                  MatchScore(features, food_characteristics[i]) ])

\* RobustFoodDetector._identify_by_color: every dominant colour is a key of
\* color_food_map, so possible_foods is never empty
_identify_by_color(features) ==
    LET dominant == features.dominant_color
        color_name == Replace(dominant, "_dominant", "")
    IN  Entry(color_food_map[dominant][1],
              IF EndsWith(dominant, "_dominant") /\ ColorRatio(features.colors, color_name) > 40
              THEN 80 ELSE 70, 1)

food_name_mappings ==
    << <<"hamburger", "burger">>, <<"french fries", "french fries">>,
       <<"fried rice", "fried rice">>, <<"spaghetti", "pasta">>, <<"beef", "steak">>,
       <<"chicken", "grilled chicken">>, <<"fish", "grilled fish">>, <<"salad", "salad">>,
       <<"fruit", "fruit bowl">>, <<"vegetable", "vegetables">>, <<"soup", "soup">>,
       <<"sandwich", "sandwich">> >>

\* RobustFoodDetector._validate_food_name
RECURSIVE ValidatedName(_)
ValidatedName(clean_name) ==
    IF \E i \in DOMAIN food_characteristics : food_characteristics[i].name = clean_name
    THEN clean_name
    ELSE IF \E i \in DOMAIN food_name_mappings : Contains(clean_name, food_name_mappings[i][1])
    THEN food_name_mappings[CHOOSE i \in DOMAIN food_name_mappings :
            /\ Contains(clean_name, food_name_mappings[i][1])
            /\ \A j \in 1..(i - 1) : ~Contains(clean_name, food_name_mappings[j][1])][2]
    ELSE clean_name

_validate_food_name(name) == ValidatedName(Replace(Strip(Lower(name)), "_", " "))

\* the strategies after the Hugging Face attempt: the feature match when its
\* confidence exceeds 0.6, else the colour match (which always answers, so
\* _smart_fallback is not reached)
RECURSIVE MatchOrColor(_, _)
MatchOrColor(feature_match, features) ==
    IF feature_match # NoMatch /\ feature_match.num > 60 * feature_match.den
    THEN feature_match
    ELSE _identify_by_color(features)

\* the try block of RobustFoodDetector.detect_food; hf is what
\* _try_huggingface_api returned, None when the service is not available
RECURSIVE RobustDetect(_, _)
RobustDetect(hf, features) ==
    IF hf # NoDetection /\ hf.confidence > 70
    THEN Entry(_validate_food_name(hf.food), hf.confidence, 1)
    ELSE MatchOrColor(_match_by_features(features), features)

-----------------------------------------------------------------------------
(* vision.py: SmartFoodRecognizer, the threshold rules *)
(* Ratios are in hundredths; brightness and texture complexity are integers. *)

\* the value of smart_analysis when the classifier is not in use
NoAnalysis ==
    [red_ratio |-> 0, green_ratio |-> 0, brown_ratio |-> 0, yellow_ratio |-> 0,
     white_ratio |-> 0, avg_brightness |-> -1, texture_complexity |-> 0,
     dominant_colors |-> <<>>]

\* a return statement of the rule named, or the end of the function body
Answer(rule, label) == [rule |-> rule, label |-> label]

\* "brown" in analysis["dominant_colors"]
InColors(colors, c) == \E i \in 1..Len(colors) : colors[i] = c

\* the if / elif chain; a branch whose inner chain has no else and matches
\* nothing falls off the end of the function, which returns None
classify_food_by_characteristics(analysis) ==
    LET red == analysis.red_ratio
        green == analysis.green_ratio
        brown == analysis.brown_ratio
        yellow == analysis.yellow_ratio
        white == analysis.white_ratio
        brightness == analysis.avg_brightness
        texture == analysis.texture_complexity
        colors == analysis.dominant_colors
    IN  IF red > 8 /\ white > 8 /\ brown > 3 /\ texture > 150
        THEN Answer("pizza", "pizza")
        ELSE IF green > 25
        THEN IF white > 10 /\ InColors(colors, "brown") THEN Answer("salad", "caesar salad")
             ELSE IF red > 5 THEN Answer("salad", "mixed salad")
             ELSE Answer("salad", "green salad")
        ELSE IF brown > 30 /\ texture > 100
        THEN IF red > 8 THEN Answer("meat", "steak")
             ELSE IF brown > 50 THEN Answer("meat", "grilled chicken")
             ELSE Answer("meat", "chicken breast")
        ELSE IF white > 35 /\ texture < 80
        THEN IF yellow > 15 THEN Answer("carb", "pasta")
             ELSE Answer("carb", "white rice")
        ELSE IF brown > 25 /\ white > 15 /\ texture < 100
        THEN Answer("carb", "brown rice")
        ELSE IF brown > 25 /\ 40 < texture /\ texture < 200
        THEN IF brightness > 120 THEN Answer("bread", "bread")
             ELSE Answer("bread", "toast")
        ELSE IF brightness > 100
        THEN IF red > 25 /\ texture > 150 THEN Answer("fruit", "strawberry")
             ELSE IF yellow > 30 /\ brown < 10 THEN Answer("fruit", "banana")
             ELSE IF red > 15 /\ yellow > 10 THEN Answer("fruit", "apple")
             ELSE IF red > 10 /\ green > 10 THEN Answer("fruit", "mixed fruit")
             ELSE Answer("end of function", None)
        ELSE IF green > 15
        THEN IF brown > 10 THEN Answer("vegetable", "cooked vegetables")
             ELSE Answer("vegetable", "fresh vegetables")
        ELSE IF brightness > 140 /\ (brown > 10 \/ white > 20) /\ texture > 50
        THEN IF brown > 20 THEN Answer("dessert", "chocolate cake")
             ELSE Answer("dessert", "cake")
        ELSE IF texture < 50
        THEN IF red > 10 THEN Answer("liquid", "tomato soup")
             ELSE IF brightness > 150 THEN Answer("liquid", "milk")
             ELSE Answer("liquid", "soup")
        ELSE IF texture > 200 /\ Len(colors) >= 2
        THEN IF brown > 15 /\ red > 5 THEN Answer("complex", "burger")
             ELSE IF yellow > 10 /\ brown > 10 THEN Answer("complex", "sandwich")
             ELSE Answer("complex", "mixed dish")
        ELSE IF brown > 20 THEN Answer("default", "cooked food")
        ELSE IF green > 10 THEN Answer("default", "vegetable dish")
        ELSE Answer("default", "food item")

\* feature vectors on both sides of the thresholds
SmartInputs ==
    [red_ratio : {0, 9, 12, 30}, green_ratio : {0, 12, 30},
     brown_ratio : {0, 12, 22, 60}, yellow_ratio : {0, 20, 40},
     white_ratio : {0, 12, 40}, avg_brightness : {80, 110, 160},
     texture_complexity : {30, 60, 160, 250},
     dominant_colors : {<<>>, <<"brown">>, <<"red", "brown">>}]

RatioNames == {"red_ratio", "green_ratio", "brown_ratio", "yellow_ratio", "white_ratio"}

\* the feature vectors that differ from one in a single colour ratio
Variants(analysis) ==
    { v \in { [analysis EXCEPT ![r] = x] : r \in RatioNames, x \in {0, 12, 22, 30} } :
        v \in SmartInputs /\ v # analysis }

-----------------------------------------------------------------------------
(* color_histogram_analyzer.py *)

\* The image is a sequence of colour classes, each with its colour in HSV
\* (hue in degrees, saturation and value in hundredths) and the number of
\* pixels that have it, together with what the histograms of the whole
\* image give: the three hue bins np.argsort puts last and the minima of
\* the Lab channels a and b. Images have at most n_clusters colours, so the
\* clusters KMeans finds are the colours of the sample.

sample_limit == 10000
n_clusters == 5

PixelCount(image) ==
    SumOver(DOMAIN image.classes, [ i \in DOMAIN image.classes |-> image.classes[i].count ])

\* the pixels clustered: all of them, or the np.random.choice of
\* sample_limit pixels without replacement when there are more, given as
\* the number of pixels taken from each class
Samples(image) ==
    IF PixelCount(image) <= sample_limit
    THEN { [ i \in DOMAIN image.classes |-> image.classes[i].count ] }
    ELSE IF Len(image.classes) = 1 THEN { <<sample_limit>> }
    ELSE { <<n, sample_limit - n>> :
             n \in Max(0, sample_limit - image.classes[2].count)
                     ..Min(image.classes[1].count, sample_limit) }

\* ColorHistogramAnalyzer._extract_dominant_colors: the clusters by
\* descending share of the sample (the sort is stable), the empty clusters
\* last
RECURSIVE _extract_dominant_colors(_, _)
_extract_dominant_colors(image, sample) ==
    LET before(i, j) == sample[i] > sample[j] \/ (sample[i] = sample[j] /\ i < j)
        rank(i) == 1 + Cardinality({ j \in DOMAIN sample : before(j, i) })
        at(p) == CHOOSE i \in DOMAIN sample : rank(i) = p
    IN  [ p \in 1..n_clusters |->
            IF p <= Len(image.classes)
            THEN [hsv |-> image.classes[at(p)].hsv, count |-> sample[at(p)]]
            ELSE [hsv |-> image.classes[at(1)].hsv, count |-> 0] ]

\* ColorHistogramAnalyzer._extract_hsv_features: saturation and brightness
\* summed over the pixels (the averages times the number of pixels)
_extract_hsv_features(image) ==
    [dominant_hues |-> image.dominant_hues,
     saturation |-> SumOver(DOMAIN image.classes,
                            [ i \in DOMAIN image.classes |->
                                image.classes[i].hsv[2] * image.classes[i].count ]),
     brightness |-> SumOver(DOMAIN image.classes,
                            [ i \in DOMAIN image.classes |->
                                image.classes[i].hsv[3] * image.classes[i].count ]),
     pixels |-> PixelCount(image)]

food_color_signatures ==
    <<
     [name |-> "pizza", dominant_hues |-> <<<<0, 10>>, <<40, 60>>>>,
      saturation_range |-> <<30, 80>>, brightness_range |-> <<30, 70>>,
      lab_clusters |-> <<<<20, 20>>, <<5, 40>>, <<10, 15>>>>],
     [name |-> "salad", dominant_hues |-> <<<<80, 140>>>>,
      saturation_range |-> <<30, 80>>, brightness_range |-> <<30, 60>>,
      lab_clusters |-> <<<<-30, 30>>, <<-20, 40>>, <<-25, 25>>>>],
     [name |-> "burger", dominant_hues |-> <<<<20, 40>>>>,
      saturation_range |-> <<20, 60>>, brightness_range |-> <<20, 50>>,
      lab_clusters |-> <<<<15, 20>>, <<5, 30>>, <<0, 40>>>>],
     [name |-> "sushi", dominant_hues |-> <<<<0, 20>>, <<160, 200>>>>,
      saturation_range |-> <<20, 70>>, brightness_range |-> <<40, 80>>,
      lab_clusters |-> <<<<0, 0>>, <<30, 10>>, <<-5, -10>>>>],
     [name |-> "rice", dominant_hues |-> <<<<40, 60>>>>,
      saturation_range |-> <<0, 20>>, brightness_range |-> <<70, 95>>,
      lab_clusters |-> <<<<0, 10>>, <<5, 15>>, <<2, 12>>>>],
     [name |-> "curry", dominant_hues |-> <<<<20, 40>>>>,
      saturation_range |-> <<50, 90>>, brightness_range |-> <<40, 70>>,
      lab_clusters |-> <<<<20, 50>>, <<30, 40>>, <<25, 35>>>>],
     [name |-> "steak", dominant_hues |-> <<<<0, 20>>, <<340, 360>>>>,
      saturation_range |-> <<30, 70>>, brightness_range |-> <<20, 50>>,
      lab_clusters |-> <<<<20, 15>>, <<15, 20>>, <<10, 10>>>>],
     [name |-> "pasta", dominant_hues |-> <<<<40, 60>>>>,
      saturation_range |-> <<20, 60>>, brightness_range |-> <<50, 80>>,
      lab_clusters |-> <<<<5, 40>>, <<25, 25>>, <<0, 20>>>>],
     [name |-> "fruit", dominant_hues |-> <<<<0, 60>>, <<280, 340>>>>,
      saturation_range |-> <<50, 90>>, brightness_range |-> <<40, 80>>,
      lab_clusters |-> <<<<40, 20>>, <<10, 60>>, <<30, 50>>>>],
     [name |-> "eggs", dominant_hues |-> <<<<40, 60>>>>,
      saturation_range |-> <<40, 80>>, brightness_range |-> <<70, 95>>,
      lab_clusters |-> <<<<0, 50>>, <<0, 5>>, <<5, 30>>>>]
    >>

\* the score of one signature in tenths and the number of its matches
SignatureScore(hsv_features, lab, sig) ==
    LET hue_matches ==
            Cardinality({ h \in DOMAIN sig.dominant_hues :
                \E d \in DOMAIN hsv_features.dominant_hues :
                    /\ sig.dominant_hues[h][1] <= hsv_features.dominant_hues[d] * 10
                    /\ hsv_features.dominant_hues[d] * 10 <= sig.dominant_hues[h][2] })
        saturation_match ==
            /\ sig.saturation_range[1] * hsv_features.pixels <= hsv_features.saturation
            /\ hsv_features.saturation <= sig.saturation_range[2] * hsv_features.pixels
        brightness_match ==
            /\ sig.brightness_range[1] * hsv_features.pixels <= hsv_features.brightness
            /\ hsv_features.brightness <= sig.brightness_range[2] * hsv_features.pixels
        lab_matches ==
            Cardinality({ c \in DOMAIN sig.lab_clusters :
                /\ Abs(lab.a_min - sig.lab_clusters[c][1]) < 30
                /\ Abs(lab.b_min - sig.lab_clusters[c][2]) < 30 })
    IN  [score |-> 3 * hue_matches + (IF saturation_match THEN 2 ELSE 0)
                     + (IF brightness_match THEN 2 ELSE 0) + lab_matches,
         matches |-> hue_matches + (IF saturation_match THEN 1 ELSE 0)
                     + (IF brightness_match THEN 1 ELSE 0) + lab_matches]

\* normalized_score = score / (len(dominant_hues) + 2), in 1/120
NormalizedScore(scored, sig) ==
    IF scored.matches > 0 THEN (12 * scored.score) \div (Len(sig.dominant_hues) + 2) ELSE 0

\* the fallback on the hue of the largest cluster when no signature matched
HueFallback(hue) ==
    IF 80 <= hue /\ hue <= 140 THEN "salad"
    ELSE IF (0 <= hue /\ hue <= 20) \/ (340 <= hue /\ hue <= 360) THEN "tomato dish"
    ELSE IF 40 <= hue /\ hue <= 60 THEN "pasta"
    ELSE "mixed dish"

\* the first signature with the largest normalized score, if that is above
\* zero, with confidence min(0.95, 0.5 + best_score)
RECURSIVE BestSignature(_, _)
BestSignature(scores, dominant_colors) ==
    LET best == CHOOSE i \in DOMAIN scores :
                    /\ \A j \in DOMAIN scores : scores[j] <= scores[i]
                    /\ \A j \in 1..(i - 1) : scores[j] < scores[i]
    IN  IF scores[best] > 0
        THEN Entry(food_color_signatures[best].name, 5 * Min(114, 60 + scores[best]), 6)
        ELSE Entry(HueFallback(dominant_colors[1].hsv[1]), 65, 1)

\* ColorHistogramAnalyzer._match_food_signatures
RECURSIVE _match_food_signatures(_, _, _)
_match_food_signatures(hsv_features, lab, dominant_colors) ==
    BestSignature([ i \in DOMAIN food_color_signatures |->
                      NormalizedScore(SignatureScore(hsv_features, lab,
                                                     food_color_signatures[i]),
                                      food_color_signatures[i]) ],
                  dominant_colors)

\* ColorHistogramAnalyzer._cluster_based_matching
RECURSIVE _cluster_based_matching(_)
_cluster_based_matching(dominant_colors) ==
    LET hue == dominant_colors[1].hsv[1]
        saturation == dominant_colors[1].hsv[2]
        brightness == dominant_colors[1].hsv[3]
        top == { dominant_colors[p].hsv[1] : p \in 1..3 }
        color_diversity == Cardinality({ h \div 30 : h \in top })
    IN  IF color_diversity >= 3
        THEN IF \E h \in top : 80 <= h /\ h <= 140 THEN Entry("salad", 75, 1)
             ELSE IF \E h \in top : (0 <= h /\ h <= 20) \/ (340 <= h /\ h <= 360)
             THEN Entry("pizza", 70, 1)
             ELSE Entry("mixed plate", 65, 1)
        ELSE IF color_diversity = 2
        THEN IF saturation > 50 /\ brightness > 50 THEN Entry("curry", 70, 1)
             ELSE Entry("rice dish", 68, 1)
        ELSE IF saturation < 20 /\ brightness > 70 THEN Entry("rice", 75, 1)
        ELSE IF 20 <= hue /\ hue <= 40 /\ saturation > 40 THEN Entry("curry", 72, 1)
        ELSE IF 80 <= hue /\ hue <= 140 /\ saturation > 30 THEN Entry("vegetables", 70, 1)
        ELSE IF hue < 20 \/ hue > 340
        THEN IF brightness < 40 THEN Entry("steak", 68, 1) ELSE Entry("tomato dish", 66, 1)
        ELSE Entry("cooked dish", 60, 1)

\* the clustering approach replaces a signature match below 0.7 when its
\* own confidence is higher
RECURSIVE BetterOf(_, _)
BetterOf(signature_match, dominant_colors) ==
    IF signature_match.num < 70 * signature_match.den
    THEN IF Leq(_cluster_based_matching(dominant_colors), signature_match)
         THEN signature_match
         ELSE _cluster_based_matching(dominant_colors)
    ELSE signature_match

RECURSIVE AnalyzeWith(_, _)
AnalyzeWith(image, dominant_colors) ==
    BetterOf(_match_food_signatures(_extract_hsv_features(image), image.lab, dominant_colors),
             dominant_colors)

\* ColorHistogramAnalyzer.analyze_food_image on the sample drawn
NoHistogram == [classes |-> <<>>, dominant_hues |-> <<>>, lab |-> [a_min |-> 0, b_min |-> 0]]

analyze_food_image(image, sample) ==
    AnalyzeWith(image, _extract_dominant_colors(image, sample))

-----------------------------------------------------------------------------
(* Labels handed to the normaliser: words joined by single blanks, as the  *)
(* adapters report them, also capitalised and padded.                      *)

NameWords == {"fruit", "salad", "bowl", "food", "dish", "Hamburger",
              "cheeseburger", "pizza"}

PlainNames == { Join(ws) : ws \in SeqsUpTo(NameWords, MaxWords) }

FoodNames == PlainNames \cup { " " \o n \o " " : n \in PlainNames }

-----------------------------------------------------------------------------
(* Specifications *)

normalize_vars == <<food_name, normalized>>
combine_vars == <<results, raised, combined, combined_raised>>
recognize_vars == <<rf_pc, google_configured, detected, calls>>
classify_vars == <<classify_args, classified>>
rule_vars == <<rule_image, hf_result, free_result, feature_result>>
hist_vars == <<hist_image, hist_runs>>
smart_vars == <<smart_analysis, smart_runs>>
external_vars == <<ext_pc, ext_key, ext_model, http_log>>
generate_vars == <<gen_args, gen_out>>
resolver_vars == <<fooddata_central, resolved>>
nutrition_vars == <<NUTRITION_DB, nutr_args, nutr_out>>
analyze_vars == <<pc, scan, img, topk, primary, recommendation, caught,
                  executed, response>>
verify_vars == <<verify_arg, report>>
service_vars == <<analyze_vars, verify_vars, requests>>
vars == <<food_name, normalized, results, raised, combined, combined_raised,
          rf_pc, google_configured, detected, calls, NUTRITION_DB, nutr_args,
          nutr_out, classify_args, classified, rule_image, hf_result, free_result,
          feature_result, hist_image, hist_runs, smart_analysis, smart_runs, ext_pc, ext_key, ext_model, http_log, gen_args, gen_out, fooddata_central, resolved, pc, scan, img, topk, primary, recommendation, caught, executed,
          response, verify_arg, report, requests>>

NormalizeIdle == food_name = None /\ normalized = <<>>
NoScan == [image |-> NoImage, notes |-> NoNotes]
NoEntry == Entry(None, 0, 1)
NoProfile == [name |-> None, serving_grams |-> 0, calories |-> 0,
              macros |-> [protein_g |-> 0, carbs_g |-> 0, fat_g |-> 0],
              micronutrients |-> [fiber_g |-> 0, sugar_g |-> 0, sodium_mg |-> 0,
                                  cholesterol_mg |-> 0]]
NoRecommendation == [profile |-> NoProfile, recipes |-> <<>>]
NoResponse == [status |-> 0, detail |-> ""]
NoReport == [items |-> <<>>, overall_confidence |-> 0]

AnalyzeIdle ==
    /\ pc = "idle"
    /\ scan = NoScan
    /\ img = NoImage
    /\ topk = <<>>
    /\ primary = NoEntry
    /\ recommendation = NoRecommendation
    /\ caught = NoException
    /\ executed = {}
    /\ response = NoResponse
VerifyIdle == verify_arg = NoProfile /\ report = NoReport
ServiceIdle == AnalyzeIdle /\ VerifyIdle /\ requests = 0

NoArgs == [food |-> None, serving |-> NoServing, remote |-> NoData]
NutritionIdle ==
    /\ NUTRITION_DB = LoadedDB
    /\ nutr_args = NoArgs
    /\ nutr_out = <<>>
RecognizeIdle ==
    /\ rf_pc = "idle"
    /\ google_configured = FALSE
    /\ detected = AllAbsent
    /\ calls = NoCalls
CombineIdle ==
    /\ results = AllAbsent
    /\ raised = AllAbsent
    /\ combined = NotCalled
    /\ combined_raised = NotCalled
NoOutcomes == [google_api_key |-> FALSE, first |-> NoDetection, hybrid_raises |-> FALSE,
               adapters |-> NoCalls, feat |-> NoFeatures, robust |-> NoDetection, k |-> 0]
ClassifyIdle ==
    /\ classify_args = NoOutcomes
    /\ classified = NotClassified
    /\ rule_image = NoPixels
    /\ hf_result = NoDetection
    /\ free_result = NoMatch
    /\ feature_result = NoMatch
    /\ hist_image = NoHistogram
    /\ hist_runs = <<>>

\* the models _try_huggingface_api tries in turn
huggingface_models == <<"nateraw/food", "Kaludi/food-category-classification-v2.0",
                        "julien-c/food-101">>

\* how requests.post ends: an answer that is used, an answer that is not, a
\* status other than 200, or an exception such as a timeout
PostOutcomes == {"ok", "unusable", "non_200", "timeout"}

Sent(service, target, outcome) ==
    [service |-> service, target |-> target, outcome |-> outcome]

ExternalIdle ==
    /\ ext_pc = "idle"
    /\ ext_key = FALSE
    /\ ext_model = 0
    /\ http_log = <<>>

NoGenerate == [food |-> None, notes |-> NoNotes, remote |-> NoData]
GenerateIdle == gen_args = NoGenerate /\ gen_out = <<>>

\* the value of fooddata_central when the resolver is not in use
NoRemote == [ f \in {} |-> NoData ]
ResolverIdle == fooddata_central = NoRemote /\ resolved = <<>>

SmartIdle == smart_analysis = NoAnalysis /\ smart_runs = <<>>

(* _normalize_food_name applied twice *)

InitNormalize ==
    /\ ServiceIdle
    /\ ClassifyIdle
    /\ SmartIdle
    /\ ExternalIdle
    /\ GenerateIdle
    /\ ResolverIdle
    /\ food_name \in FoodNames
    /\ normalized = <<>>
    /\ CombineIdle
    /\ RecognizeIdle
    /\ NutritionIdle

\* one more application of _normalize_food_name to the previous result
NormalizeFoodName ==
    /\ food_name # None
    /\ Len(normalized) < 2
    /\ normalized' = Append(normalized,
            _normalize_food_name(IF normalized = <<>> THEN food_name
                                 ELSE normalized[Len(normalized)]))
    /\ UNCHANGED <<food_name, combine_vars, recognize_vars, nutrition_vars, service_vars,
                   classify_vars, rule_vars, hist_vars, smart_vars, external_vars, generate_vars, resolver_vars>>

NextNormalize == NormalizeFoodName

SpecNormalize == InitNormalize /\ [][NextNormalize]_vars

(* _combine_results on one results map *)

InitCombine ==
    /\ ServiceIdle
    /\ ClassifyIdle
    /\ SmartIdle
    /\ ExternalIdle
    /\ GenerateIdle
    /\ ResolverIdle
    /\ NormalizeIdle
    /\ NutritionIdle
    /\ RecognizeIdle
    /\ results \in ResultMaps
    /\ raised = AllAbsent
    /\ combined = NotCalled
    /\ combined_raised = NotCalled

CombineResults ==
    /\ rf_pc = "idle"
    /\ combined = NotCalled
    /\ combined' = _combine_results(results)
    /\ UNCHANGED <<normalize_vars, results, raised, combined_raised, recognize_vars,
                   nutrition_vars, service_vars,
                   classify_vars, rule_vars, hist_vars, smart_vars, external_vars, generate_vars, resolver_vars>>

NextCombine == CombineResults

SpecCombine == InitCombine /\ [][NextCombine]_vars

(* _combine_results on two results maps that differ in one confidence *)

\* the maps equal to res except that one present method is more confident
Raises(res) ==
    { [res EXCEPT ![Methods[i]].confidence = c] :
        <<i, c>> \in { p \in Present(res) \X ConfLevels :
                          p[2] > res[Methods[p[1]]].confidence } }

InitMonotone ==
    /\ ServiceIdle
    /\ ClassifyIdle
    /\ SmartIdle
    /\ ExternalIdle
    /\ GenerateIdle
    /\ ResolverIdle
    /\ NormalizeIdle
    /\ NutritionIdle
    /\ RecognizeIdle
    /\ results \in { r \in ResultMaps : /\ r.color_histogram.hue = NoHue
                                         /\ r.huggingface = NoDetection }
    /\ raised \in Raises(results)
    /\ combined = NotCalled
    /\ combined_raised = NotCalled

CombineRaised ==
    /\ combined # NotCalled
    /\ combined_raised = NotCalled
    /\ combined_raised' = _combine_results(raised)
    /\ UNCHANGED <<normalize_vars, results, raised, combined, recognize_vars,
                   nutrition_vars, service_vars,
                   classify_vars, rule_vars, hist_vars, smart_vars, external_vars, generate_vars, resolver_vars>>

NextMonotone == CombineResults \/ CombineRaised

SpecMonotone == InitMonotone /\ [][NextMonotone]_vars

(* recognize_food: the four adapter blocks, then the vote *)

InitRecognize ==
    /\ ServiceIdle
    /\ ClassifyIdle
    /\ SmartIdle
    /\ ExternalIdle
    /\ GenerateIdle
    /\ ResolverIdle
    /\ NormalizeIdle
    /\ NutritionIdle
    /\ results = AllAbsent
    /\ raised = AllAbsent
    /\ combined = NotCalled
    /\ combined_raised = NotCalled
    /\ rf_pc = "google_vision"
    /\ google_configured \in BOOLEAN
    /\ detected = AllAbsent
    /\ calls = NoCalls

\* the adapter's label stored as it was returned
StoredRaw(ret) == ret

\* the entry stored for an adapter's return value (food, confidence, features)
Stored(ret) == [ret EXCEPT !.food = _normalize_food_name(ret.food)]

\* 1. Google Vision, only when a key or credentials are configured
GoogleVisionConfigured ==
    /\ rf_pc = "google_vision"
    /\ google_configured
    /\ \E ret \in AdapterReturns("google_vision") :
          /\ detected' = [detected EXCEPT !.google_vision =
                             detect_food_with_google_vision("ok", ret, NoImage)]
          /\ results' = [results EXCEPT !.google_vision = Stored(detected'.google_vision)]
    /\ calls' = [calls EXCEPT !.google_vision = "ok"]
    /\ rf_pc' = "color_histogram"
    /\ UNCHANGED <<normalize_vars, raised, combined, combined_raised, google_configured,
                   nutrition_vars, service_vars,
                   classify_vars, rule_vars, hist_vars, smart_vars, external_vars, generate_vars, resolver_vars>>

\* 1. Google Vision configured, but the adapter has no API key (only
\* credentials are set) or its request fails
GoogleVisionFails ==
    /\ rf_pc = "google_vision"
    /\ google_configured
    /\ \E outcome \in GoogleFailures, im \in FallbackImages :
          /\ detected' = [detected EXCEPT !.google_vision =
                             detect_food_with_google_vision(outcome, NoDetection, im)]
          /\ results' = [results EXCEPT !.google_vision = Stored(detected'.google_vision)]
          /\ calls' = [calls EXCEPT !.google_vision = outcome]
    /\ rf_pc' = "color_histogram"
    /\ UNCHANGED <<normalize_vars, raised, combined, combined_raised, google_configured,
                   nutrition_vars, service_vars,
                   classify_vars, rule_vars, hist_vars, smart_vars, external_vars, generate_vars, resolver_vars>>

GoogleVisionNotConfigured ==
    /\ rf_pc = "google_vision"
    /\ ~google_configured
    /\ results' = [results EXCEPT !.google_vision = NoDetection]
    /\ rf_pc' = "color_histogram"
    /\ UNCHANGED <<normalize_vars, raised, combined, combined_raised,
                   google_configured, detected, calls, nutrition_vars, service_vars,
                   classify_vars, rule_vars, hist_vars, smart_vars, external_vars, generate_vars, resolver_vars>>

\* 2. colour histogram analysis
ColorHistogram ==
    /\ rf_pc = "color_histogram"
    /\ \E outcome \in {"ok", "exception"} :
       \E ret \in IF outcome = "ok" THEN AdapterReturns("color_histogram")
                   ELSE {NoDetection} :
          /\ detected' = [detected EXCEPT !.color_histogram =
                             analyze_food_with_color_histograms(outcome, ret)]
          /\ results' = [results EXCEPT !.color_histogram =
                            Stored(detected'.color_histogram)]
          /\ calls' = [calls EXCEPT !.color_histogram = outcome]
    /\ rf_pc' = "huggingface"
    /\ UNCHANGED <<normalize_vars, raised, combined, combined_raised, google_configured,
                   nutrition_vars, service_vars,
                   classify_vars, rule_vars, hist_vars, smart_vars, external_vars, generate_vars, resolver_vars>>

\* 3. get_free_food_recognition(image_b64) is called without its second
\* parameter img: the call raises TypeError and the block stores None
HuggingFace ==
    /\ rf_pc = "huggingface"
    /\ results' = [results EXCEPT !.huggingface = NoDetection]
    /\ calls' = [calls EXCEPT !.huggingface = "raised"]
    /\ rf_pc' = "feature_matching"
    /\ UNCHANGED <<normalize_vars, raised, combined, combined_raised,
                   google_configured, detected, nutrition_vars, service_vars,
                   classify_vars, rule_vars, hist_vars, smart_vars, external_vars, generate_vars, resolver_vars>>

\* 4. feature-based detection
FeatureMatching ==
    /\ rf_pc = "feature_matching"
    /\ \E outcome \in {"ok", "exception"} :
       \E ret \in IF outcome = "ok" THEN AdapterReturns("feature_matching")
                   ELSE {NoDetection} :
          /\ detected' = [detected EXCEPT !.feature_matching =
                             get_robust_food_detection(outcome, ret)]
          /\ results' = [results EXCEPT !.feature_matching =
                            Stored(detected'.feature_matching)]
          /\ calls' = [calls EXCEPT !.feature_matching = outcome]
    /\ rf_pc' = "combine"
    /\ UNCHANGED <<normalize_vars, raised, combined, combined_raised, google_configured,
                   nutrition_vars, service_vars,
                   classify_vars, rule_vars, hist_vars, smart_vars, external_vars, generate_vars, resolver_vars>>

\* the weighted vote over the stored entries
RecognizeCombine ==
    /\ rf_pc = "combine"
    /\ combined' = _combine_results(results)
    /\ rf_pc' = "done"
    /\ UNCHANGED <<normalize_vars, results, raised, combined_raised,
                   google_configured, detected, calls, nutrition_vars, service_vars,
                   classify_vars, rule_vars, hist_vars, smart_vars, external_vars, generate_vars, resolver_vars>>

NextRecognize ==
    \/ GoogleVisionConfigured
    \/ GoogleVisionFails
    \/ GoogleVisionNotConfigured
    \/ ColorHistogram
    \/ HuggingFace
    \/ FeatureMatching
    \/ RecognizeCombine

SpecRecognize == InitRecognize /\ [][NextRecognize]_vars

(* calculate_dynamic_nutrition for one food at a serving and at twice it *)

InitNutrition ==
    /\ ServiceIdle
    /\ ClassifyIdle
    /\ SmartIdle
    /\ ExternalIdle
    /\ GenerateIdle
    /\ ResolverIdle
    /\ NormalizeIdle
    /\ CombineIdle
    /\ RecognizeIdle
    /\ NUTRITION_DB = LoadedDB
    /\ nutr_args \in [food : NutritionFoods, serving : 1..MaxServing,
                       remote : RemoteAnswers]
    /\ nutr_out = <<>>

\* the k-th call asks for k times the serving
CalculateDynamicNutrition ==
    /\ nutr_args # NoArgs
    /\ Len(nutr_out) < 2
    /\ LET r == calculate_dynamic_nutrition(NUTRITION_DB, nutr_args.food,
                     nutr_args.serving * (Len(nutr_out) + 1), nutr_args.remote)
       IN  /\ nutr_out' = Append(nutr_out, [info |-> r.info, source |-> r.source])
           /\ NUTRITION_DB' = r.db
    /\ UNCHANGED <<normalize_vars, combine_vars, recognize_vars, nutr_args, service_vars,
                   classify_vars, rule_vars, hist_vars, smart_vars, external_vars, generate_vars, resolver_vars>>

NextNutrition == CalculateDynamicNutrition

SpecNutrition == InitNutrition /\ [][NextNutrition]_vars

(* The service: POST /analyze and POST /verify *)

\* images posted: undecodable data, or a picture of some size, mode and colouring
Image(w, h, m, c) ==
    [decodes |-> TRUE, width |-> w, height |-> h, mode |-> m,
     green |-> c[1], brown |-> c[2], white |-> c[3]]

ImageInputs ==
    {NoImage,
     Image(40, 40, "RGB", <<30, 0, 0>>), Image(40, 480, "RGB", <<30, 0, 0>>),
     Image(640, 40, "RGBA", <<30, 0, 0>>), Image(5000, 480, "RGB", <<30, 0, 0>>),
     Image(640, 480, "RGB", <<30, 0, 0>>), Image(640, 480, "RGB", <<5, 10, 40>>),
     Image(640, 480, "RGBA", <<30, 0, 0>>)}

NotesInputs == {NoNotes, "Keto diet"}

\* what the adapters return while the service runs
ServiceReturns(m) ==
    [food : {"hamburger", "caesar salad"},
     confidence : IF m = "google_vision" THEN {30, 50, 90}
                  ELSE IF m = "color_histogram" THEN {30, 90} ELSE {30, 50},
     hue : IF m = "color_histogram" THEN {NoHue, 100} ELSE {NoHue}]

\* the entries recognize_food stores for them
ServiceStored(m) == { Stored(ret) : ret \in ServiceReturns(m) }

\* profiles posted to /verify
VerifyProfiles ==
    { [NoProfile EXCEPT !.name = n, !.calories = c, !.serving_grams = g,
                        !.macros.protein_g = pr] :
        n \in {"banana", "BANANA", "pizza", "water", "dragon fruit",
               "banana (estimated)"},
        c \in {10, 10500, 12075, 12076, 99900}, g \in {100}, pr \in {0, 2000} }

Init ==
    /\ NormalizeIdle
    /\ CombineIdle
    /\ RecognizeIdle
    /\ NutritionIdle
    /\ ServiceIdle
    /\ ClassifyIdle
    /\ SmartIdle
    /\ ExternalIdle
    /\ GenerateIdle
    /\ ResolverIdle

other_vars == <<normalize_vars, combine_vars, recognize_vars, nutr_args, nutr_out,
                classify_vars, rule_vars, hist_vars, smart_vars, external_vars, generate_vars, resolver_vars>>

\* a FoodScan arrives
StartAnalyze ==
    /\ pc \in {"idle", "done"}
    /\ requests < MaxRequests
    /\ requests' = requests + 1
    /\ scan' \in [image : ImageInputs, notes : NotesInputs]
    /\ pc' = "validate"
    /\ img' = NoImage
    /\ topk' = <<>>
    /\ primary' = NoEntry
    /\ recommendation' = NoRecommendation
    /\ caught' = NoException
    /\ executed' = {}
    /\ response' = NoResponse
    /\ verify_arg' = NoProfile
    /\ report' = NoReport
    /\ UNCHANGED <<other_vars, NUTRITION_DB>>

\* the validation block with its except clause
Validate ==
    /\ pc = "validate"
    /\ LET e == ValidationRaises(scan.image)
       IN  IF e # NoException
           THEN /\ caught' = InnerHandler(e)
                /\ pc' = "except"
                /\ img' = IF scan.image.decodes THEN scan.image ELSE NoImage
           ELSE /\ caught' = caught
                /\ pc' = "classify"
                /\ img' = Validated(scan.image)
    /\ UNCHANGED <<other_vars, NUTRITION_DB, scan, topk, primary, recommendation,
                   executed, response, verify_vars, requests>>

\* what follows topk = classify_topk(scan.image_b64, k=3) in the handler
AfterClassify(list) ==
    /\ topk' = list
    /\ primary' = IF Len(list) = 0 THEN NoEntry ELSE list[1]
    /\ pc' = IF Len(list) = 0 THEN "except"
             ELSE IF list[1].num < 40 * list[1].den THEN "fallback"
             ELSE "generate"
    /\ caught' = IF Len(list) = 0
                 THEN HTTPException(422, "Could not analyze the uploaded image",
                                    "classify", 0)
                 ELSE caught
    /\ executed' = executed \cup {"classify_topk"}
    /\ UNCHANGED <<other_vars, NUTRITION_DB, scan, img, recommendation, response,
                   verify_vars, requests>>

\* classify_topk with GOOGLE_VISION_API_KEY set and a confident Google answer
ClassifyGoogleDirect ==
    /\ pc = "classify"
    /\ \E first \in { r \in ServiceReturns("google_vision") : r.confidence >= 75 } :
       \E list \in {classify_topk(TRUE, first, FALSE, AllAbsent, NoFeatures,
                                   NoDetection, 3).list} :
          AfterClassify(list)

\* classify_topk through the hybrid recognizer: the environment holds the
\* key (and Google's first answer was not confident), or only the
\* credentials, or neither; the adapters answer whatever they answer
ClassifyHybrid ==
    /\ pc = "classify"
    /\ \E env \in {"none", "credentials", "key"},
          ch \in ServiceStored("color_histogram"),
          fm \in ServiceStored("feature_matching"),
          feat \in FeatureInputs :
       \E first \in IF env = "key"
                     THEN { r \in ServiceReturns("google_vision") :
                              r.confidence = 50 /\ r.food = RawLabelList[1] }
                     ELSE {NoDetection},
          gv \in IF env = "none" THEN {NoDetection}
                  ELSE IF env = "key"
                  THEN { d \in ServiceStored("google_vision") : d.confidence = 50 }
                  ELSE ServiceStored("google_vision") :
       \E list \in {classify_topk(env = "key", first, FALSE,
                                   [google_vision |-> gv, color_histogram |-> ch,
                                    huggingface |-> NoDetection,
                                    feature_matching |-> fm],
                                   feat, NoDetection, 3).list} :
          AfterClassify(list)

\* classify_topk when its try block raised: the robust detector answers, or
\* raises as well
ClassifyRecovered ==
    /\ pc = "classify"
    /\ \E robust \in {Raised, get_robust_food_detection("exception", NoDetection),
                       get_robust_food_detection("ok", Return("pizza", 30))} :
       \E list \in {classify_topk(FALSE, NoDetection, TRUE, AllAbsent, NoFeatures,
                                   robust, 3).list} :
          AfterClassify(list)

\* primary_confidence < 0.4 and the image has three-valued pixels
FallbackFood ==
    /\ pc = "fallback"
    /\ img.mode = "RGB"
    /\ topk' = <<Entry(determine_fallback_food(img), 40, 1)>>
    /\ executed' = executed \cup {"determine_fallback_food"}
    /\ pc' = "generate"
    /\ UNCHANGED <<other_vars, NUTRITION_DB, scan, img, primary, recommendation,
                   caught, response, verify_vars, requests>>

\* primary_confidence < 0.4 and the pixels have four values: the unpacking
\* "for r, g, b in pixels" raises ValueError
FallbackRaises ==
    /\ pc = "fallback"
    /\ img.mode # "RGB"
    /\ caught' = OtherException("too many values to unpack (expected 3)", "fallback")
    /\ executed' = executed \cup {"determine_fallback_food"}
    /\ pc' = "except"
    /\ UNCHANGED <<other_vars, NUTRITION_DB, scan, img, topk, primary, recommendation,
                   response, verify_vars, requests>>

\* every name marked, whatever the confidence
MarkedNameAlways(name, primary_confidence) == name \o " (estimated)"

\* the name returned: marked when the classifier's confidence was below 0.6
MarkedName(name, primary_confidence) ==
    IF primary_confidence.num < 60 * primary_confidence.den
    THEN name \o " (estimated)"
    ELSE name

\* generate_profile_and_recipes, the confidence indicator and the return
Generate ==
    /\ pc = "generate"
    /\ \E remote \in RemoteAnswers :
          LET r == generate_profile_and_recipes(NUTRITION_DB, topk, scan.notes, remote)
          IN  /\ recommendation' =
                    [profile |-> [r.profile EXCEPT
                                    !.name = MarkedName(r.profile.name, primary)],
                     recipes |-> r.recipes]
              /\ NUTRITION_DB' = r.db
    /\ executed' = executed \cup {"calculate_dynamic_nutrition",
                                   "generate_dynamic_recipes"}
    /\ response' = [status |-> 200, detail |-> ""]
    /\ pc' = "done"
    /\ UNCHANGED <<other_vars, scan, img, topk, primary, caught, verify_vars, requests>>

\* except HTTPException: raise / except Exception: raise HTTPException(500)
ExceptClauses ==
    /\ pc = "except"
    /\ response' = OuterHandler(caught)
    /\ pc' = "done"
    /\ UNCHANGED <<other_vars, NUTRITION_DB, scan, img, topk, primary, recommendation,
                   caught, executed, verify_vars, requests>>

\* POST /verify
Verify ==
    /\ pc \in {"idle", "done"}
    /\ requests < MaxRequests
    /\ requests' = requests + 1
    /\ \E profile \in VerifyProfiles :
          /\ verify_arg' = profile
          /\ report' = verify_profile(profile)
    /\ pc' = "idle"
    /\ scan' = NoScan
    /\ img' = NoImage
    /\ topk' = <<>>
    /\ primary' = NoEntry
    /\ recommendation' = NoRecommendation
    /\ caught' = NoException
    /\ executed' = {}
    /\ response' = NoResponse
    /\ UNCHANGED <<other_vars, NUTRITION_DB>>

\* POST /verify with the profile the last /analyze returned, unchanged
VerifyReturned ==
    /\ pc = "done"
    /\ response.status = 200
    /\ requests < MaxRequests
    /\ requests' = requests + 1
    /\ verify_arg' = recommendation.profile
    /\ report' = verify_profile(recommendation.profile)
    /\ UNCHANGED <<other_vars, NUTRITION_DB, analyze_vars>>

Next ==
    \/ StartAnalyze
    \/ Validate
    \/ ClassifyGoogleDirect
    \/ ClassifyHybrid
    \/ ClassifyRecovered
    \/ FallbackFood
    \/ FallbackRaises
    \/ Generate
    \/ ExceptClauses
    \/ Verify
    \/ VerifyReturned

Spec == Init /\ [][Next]_vars

-----------------------------------------------------------------------------
(* The rule-based classifiers on images, with and without Hugging Face *)

Palette ==
    {<<0, 255, 0>>, <<60, 180, 60>>, <<190, 230, 100>>, <<75, 101, 75>>,
     <<200, 50, 50>>, <<250, 250, 250>>, <<120, 80, 40>>}

\* images of one colour: no edges, no variance; every pixel is below 240
\* unless the colour is near white
OneColour(c) ==
    [pixels |-> << [rgb |-> c, share |-> 100] >>, texture |-> "smooth",
     texture_complexity |-> 0, aspect_ratio_one |-> TRUE,
     roundness |-> IF \A i \in 1..3 : c[i] >= 240 THEN 0 ELSE 100]

\* images of two colours, in a calm and in a busy layout
TwoColours(c, d, busy) ==
    [pixels |-> << [rgb |-> c, share |-> 60], [rgb |-> d, share |-> 40] >>,
     texture |-> IF busy THEN "complex" ELSE "uniform",
     texture_complexity |-> IF busy THEN 200 ELSE 20,
     aspect_ratio_one |-> \A x \in {c, d} : \E i \in 1..3 : x[i] < 240,
     roundness |-> IF \A x \in {c, d} : \E i \in 1..3 : x[i] < 240 THEN 100 ELSE 50]

RuleImages ==
    { OneColour(c) : c \in Palette }
      \cup { TwoColours(c, d, busy) : c \in Palette, d \in Palette, busy \in BOOLEAN }

HuggingFaceAnswers == {NoDetection, Return("hamburger", 90), Return("salad", 60)}

InitRuleBased ==
    /\ NormalizeIdle
    /\ CombineIdle
    /\ RecognizeIdle
    /\ NutritionIdle
    /\ AnalyzeIdle /\ VerifyIdle /\ requests = 0
    /\ SmartIdle
    /\ ExternalIdle
    /\ GenerateIdle
    /\ ResolverIdle
    /\ classify_args = NoOutcomes
    /\ classified = NotClassified
    /\ rule_image \in RuleImages
    /\ hf_result \in HuggingFaceAnswers
    /\ free_result = NoMatch
    /\ feature_result = NoMatch
    /\ hist_image = NoHistogram
    /\ hist_runs = <<>>

\* get_free_food_recognition(image_b64, img)
FreeRecognition ==
    /\ rule_image # NoPixels
    /\ free_result = NoMatch
    /\ free_result' = get_free_food_recognition(hf_result, analyze_visual_features(rule_image))
    /\ UNCHANGED <<normalize_vars, combine_vars, recognize_vars, nutrition_vars,
                   service_vars, classify_vars, rule_image, hf_result, feature_result,
                   hist_vars, smart_vars, external_vars, generate_vars, resolver_vars>>

\* get_robust_food_detection(image_b64)
RobustDetection ==
    /\ rule_image # NoPixels
    /\ feature_result = NoMatch
    /\ feature_result' = get_robust_food_detection("ok",
                              RobustDetect(hf_result, _extract_features(rule_image)))
    /\ UNCHANGED <<normalize_vars, combine_vars, recognize_vars, nutrition_vars,
                   service_vars, classify_vars, rule_image, hf_result, free_result,
                   hist_vars, smart_vars, external_vars, generate_vars, resolver_vars>>

NextRuleBased == FreeRecognition \/ RobustDetection

SpecRuleBased == InitRuleBased /\ [][NextRuleBased]_vars

-----------------------------------------------------------------------------
(* The colour histogram analyzer run repeatedly on one image *)

\* colours with their HSV values and their a and b in OpenCV's 8-bit Lab
HistColours ==
    {[hsv |-> <<0, 0, 100>>, lab |-> <<128, 128>>],
     [hsv |-> <<0, 30, 100>>, lab |-> <<156, 139>>],
     [hsv |-> <<120, 100, 100>>, lab |-> <<42, 211>>],
     [hsv |-> <<0, 100, 31>>, lab |-> <<161, 151>>]}

\* an image of n pixels of colour c and n of colour d; empty is the empty
\* hue bin that np.argsort ranks third to last
HistImage(c, d, n, empty) ==
    [classes |-> << [hsv |-> c.hsv, count |-> n], [hsv |-> d.hsv, count |-> n] >>,
     dominant_hues |-> <<empty, d.hsv[1] \div 10, c.hsv[1] \div 10>>,
     lab |-> [a_min |-> Min(c.lab[1], d.lab[1]), b_min |-> Min(c.lab[2], d.lab[2])]]

\* 100 x 100 and 102 x 100 pixels
HistImages ==
    { HistImage(c, d, n, empty) :
        c \in HistColours, d \in HistColours, n \in {5000, 5100}, empty \in {1, 5} }

InitHistogram ==
    /\ NormalizeIdle
    /\ CombineIdle
    /\ RecognizeIdle
    /\ NutritionIdle
    /\ AnalyzeIdle /\ VerifyIdle /\ requests = 0
    /\ SmartIdle
    /\ ExternalIdle
    /\ GenerateIdle
    /\ ResolverIdle
    /\ classify_args = NoOutcomes
    /\ classified = NotClassified
    /\ rule_image = NoPixels
    /\ hf_result = NoDetection
    /\ free_result = NoMatch
    /\ feature_result = NoMatch
    /\ hist_image \in HistImages
    /\ hist_runs = <<>>

\* analyze_food_with_color_histograms(image_b64), once more on the same image
AnalyzeFoodImage ==
    /\ hist_image # NoHistogram
    /\ Len(hist_runs) < MaxRuns
    /\ \E sample \in Samples(hist_image) :
          hist_runs' = Append(hist_runs,
                              analyze_food_with_color_histograms("ok",
                                  analyze_food_image(hist_image, sample)))
    /\ UNCHANGED <<normalize_vars, combine_vars, recognize_vars, nutrition_vars,
                   service_vars, classify_vars, rule_vars, hist_image,
                   smart_vars, external_vars, generate_vars, resolver_vars>>

NextHistogram == AnalyzeFoodImage

SpecHistogram == InitHistogram /\ [][NextHistogram]_vars

-----------------------------------------------------------------------------
(* classify_topk under every pattern of adapter outcomes *)

\* what an adapter returns when it succeeds
Succeeds ==
    [google_vision |-> Return("hamburger", 90), color_histogram |-> Return("hamburger", 70),
     huggingface |-> Return("caesar salad", 70), feature_matching |-> Return("caesar salad", 50)]

\* recognize_food's entry for a method: the stored detection when the call
\* succeeded, None when it returned nothing (indexing None raises) or raised
HybridEntry(adapters, m) ==
    IF adapters[m] = "ok" THEN Stored(Succeeds[m]) ELSE NoDetection

HybridResults(adapters) == [ m \in DOMAIN adapters |-> HybridEntry(adapters, m) ]

InitClassify ==
    /\ NormalizeIdle
    /\ CombineIdle
    /\ RecognizeIdle
    /\ NutritionIdle
    /\ AnalyzeIdle /\ VerifyIdle /\ requests = 0
    /\ SmartIdle
    /\ ExternalIdle
    /\ GenerateIdle
    /\ ResolverIdle
    /\ rule_image = NoPixels
    /\ hf_result = NoDetection
    /\ free_result = NoMatch
    /\ feature_result = NoMatch
    /\ hist_image = NoHistogram
    /\ hist_runs = <<>>
    /\ classified = NotClassified
    /\ classify_args \in
          [google_api_key : BOOLEAN,
           first : {Raised, Return("hamburger", 50), Return("hamburger", 90)},
           hybrid_raises : BOOLEAN,
           adapters : [DOMAIN NoCalls -> {"ok", "nothing", "raised"}],
           feat : FeatureInputs,
           robust : {Raised, Return("pizza", 65)},
           k : 0..MaxK]

ClassifyTopk ==
    /\ classify_args # NoOutcomes
    /\ classified = NotClassified
    /\ classified' = classify_topk(classify_args.google_api_key, classify_args.first,
                                   classify_args.hybrid_raises,
                                   HybridResults(classify_args.adapters),
                                   classify_args.feat, classify_args.robust,
                                   classify_args.k)
    /\ UNCHANGED <<normalize_vars, combine_vars, recognize_vars, nutrition_vars,
                   service_vars, classify_args, rule_vars, hist_vars, smart_vars, external_vars, generate_vars, resolver_vars>>

NextClassify == ClassifyTopk

SpecClassify == InitClassify /\ [][NextClassify]_vars

-----------------------------------------------------------------------------
(* The threshold rules on a feature vector and on one that differs from it  *)
(* in one colour ratio                                                      *)

InitSmart ==
    /\ NormalizeIdle
    /\ CombineIdle
    /\ RecognizeIdle
    /\ NutritionIdle
    /\ AnalyzeIdle /\ VerifyIdle /\ requests = 0
    /\ ClassifyIdle
    /\ ExternalIdle
    /\ GenerateIdle
    /\ ResolverIdle
    /\ smart_analysis \in SmartInputs
    /\ smart_runs = <<>>

\* food_recognizer.classify_food_by_characteristics(analysis)
ClassifyByCharacteristics ==
    /\ smart_analysis # NoAnalysis
    /\ Len(smart_runs) = 0
    /\ smart_runs' = <<[analysis |-> smart_analysis,
                        answer |-> classify_food_by_characteristics(smart_analysis)]>>
    /\ UNCHANGED <<smart_analysis, normalize_vars, combine_vars, recognize_vars,
                   nutrition_vars, service_vars, classify_vars, rule_vars, hist_vars,
                   external_vars, generate_vars, resolver_vars>>

\* the same call on a feature vector with one ratio changed
ClassifyVariant ==
    /\ Len(smart_runs) = 1
    /\ \E v \in Variants(smart_analysis) :
          smart_runs' = Append(smart_runs,
                               [analysis |-> v,
                                answer |-> classify_food_by_characteristics(v)])
    /\ UNCHANGED <<smart_analysis, normalize_vars, combine_vars, recognize_vars,
                   nutrition_vars, service_vars, classify_vars, rule_vars, hist_vars,
                   external_vars, generate_vars, resolver_vars>>

NextSmart == ClassifyByCharacteristics \/ ClassifyVariant

SpecSmart == InitSmart /\ [][NextSmart]_vars

-----------------------------------------------------------------------------
(* The HTTP requests one classify_topk call sends: Google Vision from       *)
(* classify_topk itself and again from recognize_food, Hugging Face from    *)
(* the model loop of _try_huggingface_api                                   *)

InitExternal ==
    /\ NormalizeIdle
    /\ CombineIdle
    /\ RecognizeIdle
    /\ NutritionIdle
    /\ AnalyzeIdle /\ VerifyIdle /\ requests = 0
    /\ ClassifyIdle
    /\ SmartIdle
    /\ GenerateIdle
    /\ ResolverIdle
    /\ ext_pc = "classify_topk"
    /\ ext_key \in BOOLEAN
    /\ ext_model = 0
    /\ http_log = <<>>

ext_unchanged == <<normalize_vars, combine_vars, recognize_vars, nutrition_vars,
                   service_vars, classify_vars, rule_vars, hist_vars, smart_vars,
                   generate_vars, resolver_vars>>

\* classify_topk with a key: detect_food posts to the endpoint; a confident
\* answer is returned at once, anything else goes on to the hybrid recognizer
GoogleDirect ==
    /\ ext_pc = "classify_topk"
    /\ ext_key
    /\ \E outcome \in PostOutcomes, confident \in BOOLEAN :
          /\ confident => outcome = "ok"
          /\ http_log' = Append(http_log, Sent("google_vision", "images:annotate", outcome))
          /\ ext_pc' = IF confident THEN "done" ELSE "recognize_food"
    /\ UNCHANGED <<ext_key, ext_model, ext_unchanged>>

\* classify_topk without a key: no request, the hybrid recognizer is used
NoGoogleKey ==
    /\ ext_pc = "classify_topk"
    /\ ~ext_key
    /\ ext_pc' = "recognize_food"
    /\ UNCHANGED <<ext_key, ext_model, http_log, ext_unchanged>>

\* recognize_food, block 1: with a key detect_food posts to the endpoint;
\* blocks 2 and 3 send nothing (the Hugging Face block raises before it does)
GoogleInHybrid ==
    /\ ext_pc = "recognize_food"
    /\ IF ext_key
       THEN \E outcome \in PostOutcomes :
               http_log' = Append(http_log,
                                  Sent("google_vision", "images:annotate", outcome))
       ELSE http_log' = http_log
    /\ ext_pc' = "_try_huggingface_api"
    /\ ext_model' = 1
    /\ UNCHANGED <<ext_key, ext_unchanged>>

\* recognize_food, block 4: one pass of the model loop of
\* _try_huggingface_api; a usable answer ends the loop, anything else goes
\* on to the next model
TryHuggingFaceModel ==
    /\ ext_pc = "_try_huggingface_api"
    /\ ext_model \in 1..Len(huggingface_models)
    /\ \E outcome \in PostOutcomes :
          /\ http_log' = Append(http_log,
                                Sent("huggingface", huggingface_models[ext_model], outcome))
          /\ IF outcome = "ok" \/ ext_model = Len(huggingface_models)
             THEN ext_pc' = "done" /\ ext_model' = 0
             ELSE ext_pc' = ext_pc /\ ext_model' = ext_model + 1
    /\ UNCHANGED <<ext_key, ext_unchanged>>

NextExternal == GoogleDirect \/ NoGoogleKey \/ GoogleInHybrid \/ TryHuggingFaceModel

SpecExternal == InitExternal /\ [][NextExternal]_vars

-----------------------------------------------------------------------------
(* generate_profile_and_recipes for one food with the notes and without     *)

\* foods named by topk[0]: with and without a meat word, known and unknown
GenerateFoods == {"grilled chicken", "Chicken Salad", "fried fish", "pork chops",
                  "pizza", "rice", "kiwi", "beef stew"}

GenerateNotes == {NoNotes, "", "keto please", "Low Carb", "high protein",
                  "vegan", "Vegetarian", "high protein vegan",
                  "keto and high protein", "no nuts"}

InitGenerate ==
    /\ NormalizeIdle
    /\ CombineIdle
    /\ RecognizeIdle
    /\ NutritionIdle
    /\ AnalyzeIdle /\ VerifyIdle /\ requests = 0
    /\ ClassifyIdle
    /\ SmartIdle
    /\ ExternalIdle
    /\ ResolverIdle
    /\ gen_args \in [food : GenerateFoods, notes : GenerateNotes,
                     remote : RemoteAnswers]
    /\ gen_out = <<>>

\* generate_profile_and_recipes(topk, notes), then the same with notes=None
GenerateProfileAndRecipes ==
    /\ gen_args # NoGenerate
    /\ Len(gen_out) < 2
    /\ \E r \in { generate_profile_and_recipes(NUTRITION_DB,
                      <<Entry(gen_args.food, 90, 1)>>,
                      IF Len(gen_out) = 0 THEN gen_args.notes ELSE NoNotes,
                      gen_args.remote) } :
          /\ gen_out' = Append(gen_out, [profile |-> r.profile, recipes |-> r.recipes])
          /\ NUTRITION_DB' = r.db
    /\ UNCHANGED <<gen_args, normalize_vars, combine_vars, recognize_vars, nutr_args,
                   nutr_out, service_vars, classify_vars, rule_vars, hist_vars,
                   smart_vars, external_vars, resolver_vars>>

NextGenerate == GenerateProfileAndRecipes

SpecGenerate == InitGenerate /\ [][NextGenerate]_vars

-----------------------------------------------------------------------------
(* calculate_dynamic_nutrition call after call on one NUTRITION_DB, the     *)
(* remote lookup answering each name the same way every time                *)

\* names looked up: unknown to the database as loaded, but for "pizza"
ResolverFoods == {"fried fish", "fish", "kiwi", "pizza"}

ResolverServings == {50, 100}

InitResolver ==
    /\ NormalizeIdle
    /\ CombineIdle
    /\ RecognizeIdle
    /\ NutritionIdle
    /\ AnalyzeIdle /\ VerifyIdle /\ requests = 0
    /\ ClassifyIdle
    /\ SmartIdle
    /\ ExternalIdle
    /\ GenerateIdle
    /\ fooddata_central \in [ResolverFoods -> RemoteAnswers]
    /\ resolved = <<>>

\* calculate_dynamic_nutrition(food_name, serving_grams)
ResolveNutrition ==
    /\ fooddata_central # NoRemote
    /\ Len(resolved) < MaxLookups
    /\ \E food \in ResolverFoods, serving \in ResolverServings :
          \E r \in { calculate_dynamic_nutrition(NUTRITION_DB, food, serving,
                                                 fooddata_central[food]) } :
              /\ resolved' = Append(resolved, [food |-> food, serving |-> serving,
                                               info |-> r.info, source |-> r.source])
              /\ NUTRITION_DB' = r.db
    /\ UNCHANGED <<fooddata_central, normalize_vars, combine_vars, recognize_vars,
                   nutr_args, nutr_out, service_vars, classify_vars, rule_vars,
                   hist_vars, smart_vars, external_vars, generate_vars>>

NextResolver == ResolveNutrition

SpecResolver == InitResolver /\ [][NextResolver]_vars

-----------------------------------------------------------------------------
(* Claims *)

\* C1: an image that decodes but whose width or height is below 50 pixels
\* is answered with status 422.
C1_SmallImage422 ==
    (/\ pc = "done"
     /\ scan.image.decodes
     /\ (scan.image.width < min_side \/ scan.image.height < min_side))
        => response.status = 422

\* C2: an image_b64 that cannot be decoded or opened is answered with
\* status 400, and no classifier, nutrition or recipe step is executed.
C2_UndecodableImage400 ==
    (pc \notin {"idle", "validate"} /\ ~scan.image.decodes)
        => /\ pc \in {"except", "done"}
           /\ executed = {}
           /\ recommendation = NoRecommendation
           /\ pc = "done" => response.status = 400

C2_Witness ==
    /\ pc = "done"
    /\ scan.image = NoImage
    /\ caught.kind = "http"
    /\ caught.at = "validate"
    /\ response.status = 400
    /\ executed = {}

\* C3: an exception other than HTTPException raised after the validation
\* (classification, fallback food, generation) is answered with status 500
\* and a message naming it; an HTTPException keeps its own status code.
C3_UnexpectedIs500 ==
    pc = "done" =>
        /\ (caught.kind = "other" /\ caught.at # "validate")
              => /\ response.status = 500
                 /\ response.detail = "Analysis failed: " \o caught.detail
        /\ caught.kind = "http"
              => /\ response.status = caught.status
                 /\ response.detail = caught.detail

\* the classifier's confidence was below 0.4 and the image has four-valued
\* pixels: determine_fallback_food raises ValueError, answered with 500
C3_Witness ==
    /\ pc = "done"
    /\ caught.kind = "other"
    /\ caught.at = "fallback"
    /\ img.mode = "RGBA"
    /\ "classify_topk" \in executed
    /\ response.status = 500
    /\ response.detail = "Analysis failed: too many values to unpack (expected 3)"

\* C10: a profile whose name is not in the reference table is reported as
\* one item with status "flagged" and confidence 0.30, and an overall
\* confidence of 0.30, whatever its calories, macros and serving size.
C10_UnknownFoodFlagged ==
    (/\ verify_arg # NoProfile
     /\ \A i \in 1..Len(_CANON) : Lower(_CANON[i].name) # Lower(verify_arg.name))
        => /\ Len(report.items) = 1
           /\ report.items[1].status = "flagged"
           /\ report.items[1].confidence = 30
           /\ report.overall_confidence = 30

\* "dragon fruit" is in no row of the table; neither is a name carrying
\* the marker " (estimated)"
C10_Witness ==
    /\ verify_arg.name = "dragon fruit"
    /\ verify_arg.calories = 99900
    /\ verify_arg.macros.protein_g = 2000
    /\ Len(report.items) = 1
    /\ report.items[1].claim = "Unknown food: dragon fruit"
    /\ report.overall_confidence = 30

\* C11: for a profile whose name matches a reference row, the status is
\* "supported" exactly when |calories - reference| is at most 15% of the
\* reference calories, for every reference value, those below 1 included.
C11_SupportedWithin15Percent ==
    \A i \in 1..Len(_CANON) :
        (/\ verify_arg # NoProfile
         /\ Lower(_CANON[i].name) = Lower(verify_arg.name)
         /\ \A j \in 1..(i - 1) : Lower(_CANON[j].name) # Lower(verify_arg.name))
            => /\ Len(report.items) = 1
               /\ report.items[1].status \in {"supported", "flagged"}
               /\ report.items[1].status = "supported"
                     <=> 100 * Abs(verify_arg.calories - _CANON[i].calories)
                            <= 15 * _CANON[i].calories

\* C4: when every method's result is None, _combine_results returns the
\* label "unidentified food" with confidence 0.50.
C4_NoVotesFallback ==
    (combined # NotCalled /\ \A i \in 1..Len(Methods) : results[Methods[i]] = NoDetection)
        => /\ combined.food = "unidentified food"
           /\ combined.num = 50 * combined.den

C4_Witness ==
    /\ results = AllAbsent
    /\ combined # NotCalled
    /\ food_name = None

\* C5: for detections with confidences in [0,1] the vote returns one
\* non-empty label and a confidence between 0 and 1 that is at most 0.98.
C5_LabelAndConfidenceRange ==
    combined # NotCalled =>
        /\ combined.food # None
        /\ Len(combined.food) > 0
        /\ combined.den > 0
        /\ 0 <= combined.num
        /\ combined.num <= 100 * combined.den
        /\ combined.num <= confidence_cap * combined.den

\* all four methods report the same label with confidence 1.00: the base
\* confidence 1.00 plus the bonus is cut to 0.98
C5_Witness ==
    /\ combined # NotCalled
    /\ Present(results) = 1..Len(Methods)
    /\ \A i \in 1..Len(Methods) : results[Methods[i]].confidence = 100
    /\ Cardinality(VotedFoods(results)) = 1
    /\ combined.num = confidence_cap * combined.den

\* C6: raising one method's confidence, everything else equal, does not
\* lower the confidence the vote returns.
C6_ConfidenceMonotonic ==
    (combined # NotCalled /\ combined_raised # NotCalled)
        => Leq(combined, combined_raised)

\* C8: every method's label is normalised when it is stored, before the
\* vote: the vote runs on the normalised labels, so methods that reported
\* synonyms share one vote key and agree for the bonus.
C8_NormalizedBeforeVote ==
    LET norm == [ m \in DOMAIN detected |->
                    IF detected[m] = NoDetection THEN NoDetection
                    ELSE [detected[m] EXCEPT !.food = _normalize_food_name(@)] ]
        synonyms == { p \in Present(results) \X Present(results) :
                        /\ p[1] < p[2]
                        /\ _normalize_food_name(detected[Methods[p[1]]].food)
                             = _normalize_food_name(detected[Methods[p[2]]].food) }
    IN  /\ rf_pc \in {"combine", "done"} =>
             /\ results = norm
             /\ \A p \in synonyms :
                   LET a == results[Methods[p[1]]]
                       b == results[Methods[p[2]]]
                   IN  /\ a.food = b.food
                       /\ VoteScore(results, a.food) >=
                             a.confidence * method_weights[Methods[p[1]]]
                             + b.confidence * method_weights[Methods[p[2]]]
        /\ rf_pc = "done" => combined = _combine_results(norm)

\* Google Vision reported "hamburger" and feature matching "Cheeseburger",
\* both at 0.90: the winner is "burger" with the full agreement bonus
C8_Witness ==
    /\ rf_pc = "done"
    /\ detected.google_vision # NoDetection
    /\ detected.google_vision.food = "hamburger"
    /\ detected.google_vision.confidence = 90
    /\ detected.feature_matching.food = "Cheeseburger"
    /\ detected.feature_matching.confidence = 90
    /\ detected.color_histogram.food = "hamburger"
    /\ detected.color_histogram.confidence = 90
    /\ combined.food = "burger"
    /\ combined.num = 98 * combined.den

\* C12: none of the four adapter calls made by recognize_food raises to
\* recognize_food; each returns a value.
C12_NoAdapterRaises ==
    \A i \in 1..Len(Methods) : calls[Methods[i]] # "raised"

\* C13: a method whose external call failed or whose analysis failed
\* internally contributes no detection: its entry in results is None.
C13_FailedCallIsNoResult ==
    \A i \in 1..Len(Methods) :
        calls[Methods[i]] \in GoogleFailures => results[Methods[i]] = NoDetection

\* C14: whatever each adapter does (succeeds, returns nothing, raises),
\* classify_topk(image, k) raises nothing and returns exactly min(k, 3)
\* pairs, and it reaches the fixed list that starts with ("mixed dish", 0.5)
\* only when the hybrid recognizer and the robust detector both raised.
C14_ClassifyNeverFails ==
    classified # NotClassified =>
        /\ ~classified.raised
        /\ Len(classified.list) = Min(classify_args.k, 3)
        /\ classified.via = "fixed" =>
               classify_args.hybrid_raises /\ classify_args.robust = Raised
        /\ (classify_args.k >= 2 /\ classified.list = Take(final_fallback, classify_args.k))
               => classified.via = "fixed"

C14_Witness ==
    /\ classified.via = "fixed"
    /\ classified.list = final_fallback
    /\ classify_args.k = 4
    /\ classify_args.google_api_key
    /\ classify_args.first = Raised
    /\ classify_args.adapters.google_vision = "raised"
    /\ classify_args.adapters.color_histogram = "nothing"
    /\ classify_args.adapters.feature_matching = "ok"

\* C15: an image whose pixels are all green (green ratio above 0.4) is
\* labelled "salad" or "mixed salad" with confidence at least 0.85 by the
\* rule-based classifiers, whether Hugging Face is available or not.
C15_AllGreenIsSalad ==
    (/\ rule_image # NoPixels
     /\ \A i \in DOMAIN rule_image.pixels : AdvancedMask("green", rule_image.pixels[i].rgb))
        => /\ free_result # NoMatch =>
                /\ free_result.food \in {"salad", "mixed salad"}
                /\ free_result.num >= 85 * free_result.den
           /\ feature_result # NoMatch =>
                /\ feature_result.food \in {"salad", "mixed salad"}
                /\ feature_result.num >= 85 * feature_result.den

\* C16: on the same image bytes the rule-based classification returns the
\* same (label, confidence) in every run, also for images of more than
\* 10000 pixels, where the colour histogram analyzer samples the pixels.
C16_RunsAgree ==
    \A i \in DOMAIN hist_runs, j \in DOMAIN hist_runs : hist_runs[i] = hist_runs[j]

\* C7: label normalisation is idempotent: normalising a normalised name
\* gives the same name again.
C7_NormalizeIdempotent ==
    Len(normalized) = 2 => normalized[2] = normalized[1]

\* C18: _combine_results adds confidence * weight (google_vision 0.40,
\* color_histogram 0.25, huggingface 0.20, feature_matching 0.15) to the
\* score of each present detection's label, divides by the summed weight of
\* the methods that produced a detection, and takes as winner a label whose
\* normalized score is maximal: the confidence returned is that score plus
\* the winner's agreement bonus, cut at 0.98, and the winner is the label
\* returned whenever that confidence is at least 0.60.
C18_WeightedVote ==
    LET weight == [google_vision |-> 40, color_histogram |-> 25,
                   huggingface |-> 20, feature_matching |-> 15]
        present(m) == results[m] # NoDetection
        part(m, f) == IF present(m) /\ results[m].food = f
                      THEN results[m].confidence * weight[m] ELSE 0
        score(f) == part("google_vision", f) + part("color_histogram", f)
                        + part("huggingface", f) + part("feature_matching", f)
        share(m) == IF present(m) THEN weight[m] ELSE 0
        total == share("google_vision") + share("color_histogram")
                     + share("huggingface") + share("feature_matching")
        voted == { results[m].food : m \in { n \in DOMAIN results : present(n) } }
    IN  (combined # NotCalled /\ voted # {}) =>
            \E f \in voted :
                /\ \A g \in voted : score(g) <= score(f)
                /\ combined.num * total
                       = combined.den * Min(98 * total,
                             score(f) + _calculate_agreement_bonus(results, f) * total)
                /\ combined.num >= 60 * combined.den => combined.food = f

\* google_vision and color_histogram say one label with 0.70, feature_matching
\* another with 1.00: the weights make the first label win with base
\* confidence 45.5 / 80 and bonus 0.05
C18_Witness ==
    /\ combined # NotCalled
    /\ Present(results) = {1, 2, 4}
    /\ results.google_vision.food = results.color_histogram.food
    /\ results.feature_matching.food # results.google_vision.food
    /\ results.google_vision.confidence = 70
    /\ results.color_histogram.confidence = 70
    /\ results.feature_matching.confidence = 100
    /\ combined.food = results.google_vision.food
    /\ combined.num * 80 = combined.den * (4550 + 5 * 80)

\* C19: the bonus added to the base confidence is 0.10 when at least 75% of
\* the methods with confidence strictly above 0.6 voted for the winning
\* label, 0.05 when at least 50% did, and 0 otherwise, also when no method
\* has confidence above 0.6; the sum is cut at 0.98.
C19_AgreementBonus ==
    (combined # NotCalled /\ Present(results) # {}) =>
        LET winner == BestFood(results)
            confident == { m \in DOMAIN results :
                             results[m] # NoDetection /\ results[m].confidence > 60 }
            agreeing == { m \in confident : results[m].food = winner }
            bonus == IF confident = {} THEN 0
                     ELSE IF 100 * Cardinality(agreeing) >= 75 * Cardinality(confident)
                          THEN 10
                     ELSE IF 100 * Cardinality(agreeing) >= 50 * Cardinality(confident)
                          THEN 5
                     ELSE 0
            base == VoteScore(results, winner)
            total == TotalWeight(results)
        IN  combined.num * total
                = combined.den * (IF base + bonus * total > 98 * total
                                  THEN 98 * total ELSE base + bonus * total)

\* google_vision says one label with 1.00 and color_histogram another with
\* exactly 0.60, which is not counted: one of one agrees, the bonus is 0.10
C19_Witness ==
    /\ combined # NotCalled
    /\ Present(results) = {1, 2}
    /\ results.google_vision.confidence = 100
    /\ results.color_histogram.confidence = 60
    /\ results.color_histogram.food # results.google_vision.food
    /\ combined.food = results.google_vision.food
    /\ combined.num * 65 = combined.den * (4000 + 10 * 65)

C21_AlwaysALabel ==
    \A i \in 1..Len(smart_runs) :
        /\ smart_runs[i].answer.label # None
        /\ Len(smart_runs[i].answer.label) > 0

\* C22: when no threshold rule matches, the label returned is determined by
\* the single colour ratio that is the largest: two feature vectors that
\* reach the default with the same single largest ratio get the same label.
C22_DefaultByLargestRatio ==
    Len(smart_runs) = 2 =>
        LET first == smart_runs[1]
            second == smart_runs[2]
            largest(a) == { r \in RatioNames : \A q \in RatioNames : a[q] <= a[r] }
        IN  (/\ first.answer.rule = "default"
             /\ second.answer.rule = "default"
             /\ Cardinality(largest(first.analysis)) = 1
             /\ largest(first.analysis) = largest(second.analysis))
                => first.answer.label = second.answer.label

\* C23: nutrition resolution is a fixed cascade: the exact lower-cased key
\* in the database wins; only without it the fuzzy match is used, which
\* gives an entry of the highest similarity among those strictly above 0.5;
\* only without such an entry the remote lookup is used; and only when that
\* yields nothing the keyword estimate on its 150 g baseline.
C23_ResolutionCascade ==
    Len(nutr_out) >= 1 =>
        LET key == Strip(Lower(nutr_args.food))
            out == nutr_out[1]
            exact == { i \in 1..Len(LoadedDB) : LoadedDB[i][1] = key }
            sim == [ i \in 1..Len(LoadedDB) |->
                        calculate_food_similarity(key, LoadedDB[i][1]) ]
            above == { i \in 1..Len(LoadedDB) : 2 * sim[i].num > sim[i].den }
            best == { i \in above : \A j \in above : Leq(sim[j], sim[i]) }
            from(data) == ScaleAll(data, nutr_args.serving, data.serving_size_g)
        IN  /\ out.source = "direct" <=> exact # {}
            /\ out.source = "direct" => \E i \in exact : out.info = from(LoadedDB[i][2])
            /\ out.source = "fuzzy" <=> (exact = {} /\ above # {})
            /\ out.source = "fuzzy" => \E i \in best : out.info = from(LoadedDB[i][2])
            /\ out.source = "remote"
                  <=> (exact = {} /\ above = {} /\ nutr_args.remote # NoData)
            /\ out.source = "remote" => out.info = from(nutr_args.remote)
            /\ out.source = "estimate"
                  <=> (exact = {} /\ above = {} /\ nutr_args.remote = NoData)
            /\ out.source = "estimate"
                  => out.info = ScaleAll(EstimateBase(Lower(nutr_args.food)),
                                         nutr_args.serving, 150)

\* "chicken salad" is no key; "grilled chicken" and "caesar salad" both score
\* 1/3 + 0.2, the first of the two is taken (165 kcal per 100 g, 33 kcal at
\* 20 g) although the remote lookup would have answered
C23_Witness ==
    /\ Len(nutr_out) >= 1
    /\ nutr_args.food = "chicken salad"
    /\ nutr_args.serving = 20
    /\ nutr_args.remote # NoData
    /\ nutr_out[1].source = "fuzzy"
    /\ nutr_out[1].info.calories = 33

\* C24: external calls are single-attempt: during one classify_topk request
\* the Google Vision endpoint and the Hugging Face inference service are
\* each sent at most one request, and a call that failed or timed out is
\* never followed by another call to the same service.
C24_SingleAttempt ==
    \A i \in 1..Len(http_log), j \in 1..Len(http_log) :
        http_log[i].service = http_log[j].service => i = j

\* C25: the notes act on the base profile, and at most one adjustment is
\* made, in the priority keto / low carb (carbs_g halved), then high protein
\* (protein_g times 1.5), then vegan / vegetarian (the meat word replaced in
\* the name, cholesterol set to 0); absent notes and notes that match none
\* of these leave the profile equal to the base profile.
C25_OneAdjustmentByPriority ==
    Len(gen_out) = 2 =>
        LET adjusted == gen_out[1].profile
            base == gen_out[2].profile
            given == gen_args.notes # NoNotes
            notes == IF given THEN Lower(gen_args.notes) ELSE ""
            keto == Contains(notes, "keto") \/ Contains(notes, "low carb")
            protein == ~keto /\ Contains(notes, "high protein")
            vegan == /\ ~keto /\ ~protein
                     /\ Contains(notes, "vegan") \/ Contains(notes, "vegetarian")
            meats == {"chicken", "beef", "pork", "fish", "turkey"}
            meat == AnyIn(Lower(base.name), meats)
        IN  /\ keto => /\ 2 * adjusted.macros.carbs_g = base.macros.carbs_g
                       /\ adjusted.macros.protein_g = base.macros.protein_g
                       /\ adjusted.name = base.name
                       /\ adjusted.micronutrients = base.micronutrients
            /\ protein => /\ 2 * adjusted.macros.protein_g = 3 * base.macros.protein_g
                          /\ adjusted.macros.carbs_g = base.macros.carbs_g
                          /\ adjusted.name = base.name
                          /\ adjusted.micronutrients = base.micronutrients
            /\ (vegan /\ meat) => /\ ~AnyIn(Lower(adjusted.name), meats)
                                  /\ adjusted.micronutrients.cholesterol_mg = 0
                                  /\ adjusted.macros = base.macros
                                  /\ adjusted.calories = base.calories
            /\ (~keto /\ ~protein /\ ~(vegan /\ meat)) => adjusted = base

\* C30: the notes never change the recipes: the recipes returned with the
\* notes are those returned with notes=None, also when a vegan note renames
\* the profile or a keto or high protein note changes its calories.
C30_NotesLeaveRecipes ==
    Len(gen_out) = 2 => gen_out[1].recipes = gen_out[2].recipes

\* "grilled chicken" with the note "vegan": the profile is renamed "grilled
\* tofu", the recipes are still those of grilled chicken
C30_Witness ==
    /\ Len(gen_out) = 2
    /\ gen_args.food = "grilled chicken"
    /\ gen_args.notes = "vegan"
    /\ gen_out[1].profile.name = "grilled tofu"
    /\ gen_out[2].profile.name = "grilled chicken"
    /\ Len(gen_out[1].recipes) = 2
    /\ gen_out[1].recipes[1].title = "Healthier Grilled Chicken"

\* C26: the values resolved for a food name depend only on the name and the
\* serving, not on the calls made before: two calls with the same name and
\* serving, the remote lookup answering alike, return the same values.
C26_HistoryIndependent ==
    \A i \in 1..Len(resolved), j \in 1..Len(resolved) :
        (resolved[i].food = resolved[j].food /\ resolved[i].serving = resolved[j].serving)
            => resolved[i].info = resolved[j].info

\* C27: each of the four weighted methods can take part in the vote: in the
\* execution of recognize_food in which Google Vision is configured and no
\* adapter fails, the entry of every method in the results map, huggingface
\* included, is a detection rather than None.
C27_EveryMethodCanVote ==
    (/\ rf_pc = "done"
     /\ google_configured
     /\ calls.google_vision = "ok"
     /\ calls.color_histogram = "ok"
     /\ calls.feature_matching = "ok")
        => \A i \in 1..Len(Methods) : results[Methods[i]] # NoDetection

\* C28: a successful /analyze response has a profile name ending with
\* " (estimated)" exactly when the classifier's primary confidence was below
\* 0.6; below 0.4 the profile is made from determine_fallback_food's label,
\* one of "vegetables", "cooked food", "rice", "mixed dish", and not from the
\* classifier's label, and it carries the suffix too.
C28_EstimatedBelow60 ==
    (pc = "done" /\ response.status = 200)
        => /\ EndsWith(recommendation.profile.name, " (estimated)")
                 <=> primary.num < 60 * primary.den
           /\ primary.num < 40 * primary.den
                 => /\ topk = <<Entry(determine_fallback_food(img), 40, 1)>>
                    /\ topk[1].food \in {"vegetables", "cooked food", "rice", "mixed dish"}
                    /\ "determine_fallback_food" \in executed
                    /\ recommendation.profile.name = topk[1].food \o " (estimated)"
                    /\ recommendation.recipes =
                          generate_profile_and_recipes(NUTRITION_DB, topk, scan.notes,
                                                       NoData).recipes

\* a "mixed dish" seen with confidence 0.25 on a mostly white picture is
\* answered as rice
C28_Witness ==
    /\ pc = "done"
    /\ response.status = 200
    /\ primary.food = "mixed dish"
    /\ primary.num = 25 * primary.den
    /\ img.white = 40
    /\ topk[1].food = "rice"
    /\ recommendation.profile.name = "rice (estimated)"

\* C29: the profile /analyze returned for a food named in the canonical
\* table, posted unchanged to /verify, is not reported as "Unknown food",
\* whatever the classifier's primary confidence was.
C29_ReturnedProfileIsKnown ==
    (/\ verify_arg # NoProfile
     /\ verify_arg = recommendation.profile
     /\ \E i \in 1..Len(_CANON) : Lower(_CANON[i].name) = Lower(topk[1].food))
        => /\ Len(report.items) = 1
           /\ report.items[1].claim # "Unknown food: " \o verify_arg.name
           /\ report.items[1].evidence # "Not found in canonical subset"

\* C17: NUTRITION_DB is read-only after startup: whatever foods are looked
\* up and whatever the remote lookup returns, it holds exactly the entries
\* it held when loading finished.
C17_DatabaseReadOnly == NUTRITION_DB = LoadedDB

\* C9: the calories returned for twice the serving are twice the calories
\* returned for the serving, up to 1 kcal of rounding, whichever source
\* resolved the food.
C9_CaloriesLinear ==
    Len(nutr_out) = 2 =>
        LET once == nutr_out[1].info.calories
            twice == nutr_out[2].info.calories
        IN  /\ twice - 2 * once <= 1
            /\ 2 * once - twice <= 1
            /\ nutr_out[2].info.serving_grams = 2 * nutr_out[1].info.serving_grams

\* an unknown name answered by the remote lookup: the first call caches the
\* record, the second finds it by its key; 61 kcal per 100 g at 9 g and 18 g
C9_Witness ==
    /\ Len(nutr_out) = 2
    /\ nutr_args.food = "kiwi"
    /\ nutr_args.serving = 9
    /\ nutr_out[1].source = "remote"
    /\ nutr_out[2].source = "direct"
    /\ nutr_out[1].info.calories = 5
    /\ nutr_out[2].info.calories = 11

=============================================================================
